---- MODULE Spec2Model ----
(***************************************************************************)
(* Model of the persistent memory subsystem of zpi-ltm-harness:           *)
(*   packages/coding-agent/src/core/memory.ts        (store, allocator,   *)
(*                                                    compaction)         *)
(*   packages/coding-agent/src/core/tools/memory.ts  (memory_write,       *)
(*                                                    memory_update,      *)
(*                                                    memory_delete)      *)
(*                                                                         *)
(* JavaScript strings on which the code computes (identifiers, fact text, *)
(* tags, Map keys) are sequences of one-character strings, so that        *)
(* replace, parseInt, padStart, toLowerCase, join and split are computed  *)
(* as the code computes them.  Strings the code only stores and compares  *)
(* (names, triggers, steps, summaries) are TLA+ strings; "" is the empty  *)
(* (falsy) string.  An optional parameter is None (undefined) or Some(v). *)
(***************************************************************************)
EXTENDS Integers, Sequences, FiniteSets, TLC

VARIABLES
    files,          \* files[scope][kind]: the "memories" array of <scope dir>/<kind>.json
    memoryContext,  \* the module-level tool context: [sessionId, scope]
    result,         \* what the last tool call returned
    issued,         \* history: issued[scope][kind] = the largest suffix allocated so far
    procs,          \* concurrent specification: each process's call in progress
    input,          \* pure-function specifications: the argument
    output          \* pure-function specifications: the value returned

vars == <<files, memoryContext, result, issued, procs, input, output>>

----------------------------------------------------------------------------
(* Bounds *)

\* a creating memory_write is taken only while the scope holds fewer records
MaxRecords == 2

\* length of the list handed to compactEpisodicMemories
MaxEpisodes == 3

\* a creating memory_write is taken only while the collection's largest suffix is below
MaxId == 3

----------------------------------------------------------------------------
(* JavaScript values *)

None == <<>>

Some(v) == <<v>>

IsSome(o) == Len(o) > 0

\* !x for an optional string parameter: undefined and "" are falsy
FalsyStr(o) == IF IsSome(o) THEN o[1] = "" ELSE TRUE

\* !x for an optional character-sequence string
FalsySeq(o) == IF IsSome(o) THEN Len(o[1]) = 0 ELSE TRUE

\* a test for undefined only, the empty array passing
IsUndefinedOnly(o) == ~IsSome(o)

\* !x?.length for an optional array
FalsyLength(o) == IF IsSome(o) THEN Len(o[1]) = 0 ELSE TRUE

\* x ?? d
OrElse(o, d) == IF IsSome(o) THEN o[1] ELSE d

Range(s) == {s[i] : i \in 1..Len(s)}

\* Array.prototype.findIndex, 1-based, on the callback's values; 0 when none is true
FindIndex(hits) ==
    IF \E i \in 1..Len(hits) : hits[i]
    THEN CHOOSE i \in 1..Len(hits) : hits[i] /\ \A j \in 1..(i - 1) : ~hits[j]
    ELSE 0

\* the elements of s, repeated ones too
KeepAll(s) == s

\* [...new Set(s)]: the elements of s, each at its first occurrence
RECURSIVE Dedup(_)
Dedup(s) ==
    IF Len(s) = 0 THEN <<>>
    ELSE LET front == Dedup(SubSeq(s, 1, Len(s) - 1))
             last == s[Len(s)]
         IN IF last \in Range(front) THEN front ELSE Append(front, last)

\* Array.prototype.splice(idx): the record at idx and all after it removed
RemoveFrom(s, idx) == SubSeq(s, 1, idx - 1)

\* Array.prototype.splice(idx, 1)
RemoveAt(s, idx) == SubSeq(s, 1, idx - 1) \o SubSeq(s, idx + 1, Len(s))

DigitChars == <<"0", "1", "2", "3", "4", "5", "6", "7", "8", "9">>

IsDigit(c) == c \in Range(DigitChars)

DigitVal(c) == (CHOOSE i \in 1..10 : DigitChars[i] = c) - 1

\* String(n) for n >= 0
RECURSIVE NumToString(_)
NumToString(n) ==
    IF n < 10 THEN <<DigitChars[n + 1]>>
    ELSE NumToString(n \div 10) \o <<DigitChars[(n % 10) + 1]>>

\* String.prototype.padStart(len, pad) with a one-character pad
RECURSIVE PadStart(_, _, _)
PadStart(s, len, pad) ==
    IF Len(s) >= len THEN s ELSE PadStart(<<pad>> \o s, len, pad)

\* does pat occur in s at position i
OccursAt(s, pat, i) ==
    /\ i + Len(pat) - 1 <= Len(s)
    /\ \A k \in 1..Len(pat) : s[i + k - 1] = pat[k]

\* String.prototype.replace(pat, ""): the first occurrence of pat removed
StrReplaceEmpty(s, pat) ==
    IF \E i \in 1..Len(s) : OccursAt(s, pat, i)
    THEN LET i == CHOOSE k \in 1..Len(s) :
                      OccursAt(s, pat, k) /\ \A j \in 1..(k - 1) : ~OccursAt(s, pat, j)
         IN SubSeq(s, 1, i - 1) \o SubSeq(s, i + Len(pat), Len(s))
    ELSE s

\* value of the digit string s
RECURSIVE DigitsValue(_)
DigitsValue(s) ==
    IF Len(s) = 0 THEN 0
    ELSE 10 * DigitsValue(SubSeq(s, 1, Len(s) - 1)) + DigitVal(s[Len(s)])

\* parseInt(s, 10): the longest prefix of digits; NaN when s does not start with a
\* digit (the alphabet of the model holds no sign and no white space)
ParseInt(s) ==
    LET n == IF \E i \in 1..Len(s) : ~IsDigit(s[i])
             THEN (CHOOSE i \in 1..Len(s) :
                       ~IsDigit(s[i]) /\ \A j \in 1..(i - 1) : IsDigit(s[j])) - 1
             ELSE Len(s)
    IN IF n = 0 THEN [isNaN |-> TRUE, num |-> 0]
       ELSE [isNaN |-> FALSE, num |-> DigitsValue(SubSeq(s, 1, n))]

LowerChar(c) ==
    CASE c = "A" -> "a"
      [] c = "B" -> "b"
      [] c = "C" -> "c"
      [] OTHER -> c

\* String.prototype.toLowerCase
ToLowerCase(s) == [i \in 1..Len(s) |-> LowerChar(s[i])]

----------------------------------------------------------------------------
(* memory.ts: storage and the identifier allocator *)

Scopes == {"project", "global"}

Kinds == {"procedural", "episodic", "semantic"}

ProcPrefix == <<"p", "r", "o", "c">>

EpPrefix == <<"e", "p">>

SemPrefix == <<"s", "e", "m">>

PrefixOf(kind) ==
    CASE kind = "procedural" -> ProcPrefix
      [] kind = "episodic" -> EpPrefix
      [] kind = "semantic" -> SemPrefix

\* loadStore reading the default scope whatever scope it is given
LoadStoreGlobal(kind, scope) == files["global"][kind]

\* loadStore: the file's memories array ({memories: []} when the file is absent)
LoadStore(kind, scope) == files[scope][kind]

\* saveStore keeping the records the file holds that mems lacks
SaveStoreMerging(kind, mems, scope) ==
    LET kept == SelectSeq(files[scope][kind], LAMBDA m : m \notin Range(mems))
    IN [files EXCEPT ![scope][kind] = kept \o mems]

\* the files after saveStore(cwd, <kind>.json, {memories: mems}, scope)
SaveStore(kind, mems, scope) == [files EXCEPT ![scope][kind] = mems]

\* the numeric suffix generateId reads off one identifier
IdNumber(prefix, id) == ParseInt(StrReplaceEmpty(id, prefix \o <<"_">>))

\* the loop of generateId: the largest suffix that parses and exceeds 0
RECURSIVE MaxIdNumber(_, _)
MaxIdNumber(prefix, mems) ==
    IF Len(mems) = 0 THEN 0
    ELSE LET max == MaxIdNumber(prefix, SubSeq(mems, 1, Len(mems) - 1))
             num == IdNumber(prefix, mems[Len(mems)].id)
         IN IF ~num.isNaN /\ num.num > max THEN num.num ELSE max

\* the identifier without its prefix
FormatIdBare(prefix, n) == PadStart(NumToString(n), 3, "0")

FormatId(prefix, n) == prefix \o <<"_">> \o PadStart(NumToString(n), 3, "0")

\* generateId numbering by the count of records instead of the largest suffix
generateIdByCount(prefix, mems) == FormatId(prefix, Len(mems) + 1)

generateId(prefix, mems) == FormatId(prefix, MaxIdNumber(prefix, mems) + 1)

----------------------------------------------------------------------------
(* tools/memory.ts: the tool context and the inputs of the tool calls *)

Sessions == {"session_1", "session_2"}

\* the instants Date can return (nowISO, new Date()).  A call that creates a record
\* reads the first instant; a call that changes a stored record reads any instant.
Times == {1, 2}

FirstTime == CHOOSE t \in Times : \A u \in Times : t <= u

\* new Date().toISOString().split("T")[0]: the day of instant t
ISODate(t) == <<"day", (t + 1) \div 2>>

Contexts == [sessionId : Sessions, scope : Scopes]

\* memory_write parameters (memoryWriteSchema); every field but type is optional
WriteParams(type, name, trigger, steps, summary, details, category, text, tags, mistakes, lessons) ==
    [type |-> type, name |-> name, trigger |-> trigger, steps |-> steps,
     summary |-> summary, details |-> details, category |-> category, text |-> text,
     tags |-> tags, reflection_mistakes |-> mistakes, reflection_lessons |-> lessons]

ProcWrite(name, trigger, steps, tags) ==
    WriteParams("procedural", name, trigger, steps, None, None, None, None, tags, None, None)

EpWrite(summary, details, tags, mistakes, lessons) ==
    WriteParams("episodic", None, None, None, summary, details, None, None, tags, mistakes, lessons)

SemWrite(category, text, tags) ==
    WriteParams("semantic", None, None, None, None, None, category, text, tags, None, None)

TagA == <<"a">>

TagB == <<"b">>

\* procedural writes: two that share a name, fresh names, and each missing field
ProcWriteInputs ==
    { ProcWrite(Some("deploy"), Some("on deploy"), Some(<<"build", "push">>), Some(<<TagA>>)),
      ProcWrite(Some("deploy"), Some("on release"), Some(<<"tag">>), Some(<<TagB>>)),
      ProcWrite(Some("test"), Some("on change"), Some(<<"run tests">>), None),
      ProcWrite(Some("lint"), Some("on change"), Some(<<"run tests">>), None),
      ProcWrite(None, Some("on deploy"), Some(<<"build">>), None),
      ProcWrite(Some("deploy"), Some(""), Some(<<"build">>), None),
      ProcWrite(Some("deploy"), Some("on deploy"), Some(<<>>), None),
      ProcWrite(Some("deploy"), Some("on deploy"), None, None) }

EpWriteInputs ==
    { EpWrite(Some("fixed bug"), Some(<<"d1">>), Some(<<TagA>>), Some(<<"m1">>), None),
      EpWrite(Some("added test"), None, None, None, None),
      EpWrite(None, Some(<<"d1">>), Some(<<TagA>>), None, None),
      EpWrite(Some(""), Some(<<"d1">>), None, None, None) }

\* semantic writes: texts that differ in case only, in more, a second category, and
\* each missing field
SemWriteInputs ==
    { SemWrite(Some("preference"), Some(<<"a">>), None),
      SemWrite(Some("preference"), Some(<<"A">>), None),
      SemWrite(Some("preference"), Some(<<"b">>), None),
      SemWrite(Some("fact"), Some(<<"a">>), Some(<<TagA>>)),
      SemWrite(None, Some(<<"a">>), None),
      SemWrite(Some("fact"), None, None),
      SemWrite(Some("fact"), Some(<<>>), None) }

\* the writes that lack a required field, of every kind
RejectedWrites ==
    { ProcWrite(None, Some("on deploy"), Some(<<"build">>), None),
      ProcWrite(Some(""), Some("on deploy"), Some(<<"build">>), None),
      ProcWrite(Some("deploy"), None, Some(<<"build">>), None),
      ProcWrite(Some("deploy"), Some(""), Some(<<"build">>), None),
      ProcWrite(Some("deploy"), Some("on deploy"), Some(<<>>), None),
      ProcWrite(Some("deploy"), Some("on deploy"), None, None),
      EpWrite(None, Some(<<"d1">>), Some(<<TagA>>), None, None),
      EpWrite(Some(""), Some(<<"d1">>), None, None, None),
      SemWrite(None, Some(<<"a">>), None),
      SemWrite(Some("fact"), None, None),
      SemWrite(Some("fact"), Some(<<>>), None) }

\* the writes of the specification of all three kinds together
WriteInputs ==
    { ProcWrite(Some("deploy"), Some("on deploy"), Some(<<"build", "push">>), Some(<<TagA>>)),
      ProcWrite(Some("test"), Some("on change"), Some(<<"run tests">>), None),
      ProcWrite(None, Some("on deploy"), Some(<<"build">>), None),
      EpWrite(Some("fixed bug"), Some(<<"d1">>), Some(<<TagA>>), Some(<<"m1">>), None),
      EpWrite(Some(""), Some(<<"d1">>), None, None, None),
      SemWrite(Some("preference"), Some(<<"a">>), None),
      SemWrite(Some("preference"), Some(<<"b">>), None),
      SemWrite(None, Some(<<"a">>), None) }

\* the return value of a tool call: the message kind and the details object
Result(op, text, details) == [op |-> op, text |-> text, details |-> details]

WriteDetails(action, id) == [action |-> action, id |-> id]

NoDetails == WriteDetails(None, None)

TotalRecords == 
    LET n(scope) == Len(files[scope]["procedural"]) + Len(files[scope]["episodic"])
                      + Len(files[scope]["semantic"])
    IN n("project") + n("global")

\* the model stops creating records at MaxRecords records or at suffix MaxId
MayCreate(prefix, mems) ==
    /\ TotalRecords < MaxRecords
    /\ MaxIdNumber(prefix, mems) < MaxId

----------------------------------------------------------------------------
(* tools/memory.ts: memory_write *)

\* memoryWriteTool.execute, type "procedural"
WriteProcedural(params) ==
    LET scope == memoryContext.scope
        tags == OrElse(params.tags, <<>>)
        mems == LoadStore("procedural", scope)
        idx == FindIndex([i \in 1..Len(mems) |-> mems[i].name = params.name[1]])
        id == generateId(ProcPrefix, mems)
    IN IF FalsyStr(params.name) \/ FalsyStr(params.trigger) \/ FalsyLength(params.steps)
       THEN /\ result' = Result("write", "Error: procedural memory requires name, trigger, and steps.", NoDetails)
            /\ UNCHANGED files
       ELSE IF idx # 0
       THEN /\ \E t1 \in Times :
                 files' = SaveStore("procedural",
                              [mems EXCEPT ![idx] =
                                  [@ EXCEPT !.steps = params.steps[1],
                                            !.trigger = params.trigger[1],
                                            !.tags = Dedup(@ \o tags),
                                            !.updated = t1]],
                              scope)
            /\ result' = Result("write", "Updated procedural memory", WriteDetails(Some("updated"), Some(mems[idx].id)))
       ELSE /\ MayCreate(ProcPrefix, mems)
            /\ \E t1 \in {FirstTime} : \E t2 \in {FirstTime} :
                 files' = SaveStore("procedural",
                              Append(mems, [id |-> id, name |-> params.name[1],
                                            trigger |-> params.trigger[1],
                                            steps |-> params.steps[1], tags |-> tags,
                                            created |-> t1, updated |-> t2,
                                            sourceSession |-> memoryContext.sessionId]),
                              scope)
            /\ result' = Result("write", "Saved procedural memory", WriteDetails(Some("created"), Some(id)))

\* the reflection object of an episodic write; None for undefined
Reflection(params) ==
    IF ~FalsyLength(params.reflection_mistakes) \/ ~FalsyLength(params.reflection_lessons)
    THEN Some([mistakes |-> OrElse(params.reflection_mistakes, <<>>),
               lessons |-> OrElse(params.reflection_lessons, <<>>)])
    ELSE None

\* the record an episodic write appends
NewEpisode(params, id, sessionId, t1) ==
    [id |-> id, summary |-> params.summary[1],
     details |-> OrElse(params.details, <<>>),
     reflection |-> Reflection(params),
     tags |-> OrElse(params.tags, <<>>), date |-> ISODate(t1),
     sourceSession |-> sessionId]

\* memoryWriteTool.execute, type "episodic"
WriteEpisodic(params) ==
    LET scope == memoryContext.scope
        mems == LoadStore("episodic", scope)
        id == generateId(EpPrefix, mems)
    IN IF FalsyStr(params.summary)
       THEN /\ result' = Result("write", "Error: episodic memory requires a summary.", NoDetails)
            /\ UNCHANGED files
       ELSE /\ MayCreate(EpPrefix, mems)
            /\ \E t1 \in {FirstTime} :
                 files' = SaveStore("episodic",
                              Append(mems, NewEpisode(params, id, memoryContext.sessionId, t1)),
                              scope)
            /\ result' = Result("write", "Saved episodic memory", WriteDetails(Some("created"), Some(id)))

\* SameFact comparing the texts without lower-casing them
SameFactExact(m, params) ==
    /\ m.category = params.category[1]
    /\ m.text = params.text[1]

\* the duplicate test of a semantic write
SameFact(m, params) ==
    /\ m.category = params.category[1]
    /\ ToLowerCase(m.text) = ToLowerCase(params.text[1])

\* memoryWriteTool.execute, type "semantic"
WriteSemantic(params) ==
    LET scope == memoryContext.scope
        tags == OrElse(params.tags, <<>>)
        mems == LoadStore("semantic", scope)
        idx == FindIndex([i \in 1..Len(mems) |-> SameFact(mems[i], params)])
        id == generateId(SemPrefix, mems)
    IN IF FalsySeq(params.text) \/ ~IsSome(params.category)
       THEN /\ result' = Result("write", "Error: semantic memory requires text and category.", NoDetails)
            /\ UNCHANGED files
       ELSE IF idx # 0
       THEN /\ result' = Result("write", "This semantic memory already exists", WriteDetails(Some("duplicate"), Some(mems[idx].id)))
            /\ UNCHANGED files
       ELSE /\ MayCreate(SemPrefix, mems)
            /\ \E t1 \in {FirstTime} :
                 files' = SaveStore("semantic",
                              Append(mems, [id |-> id, category |-> params.category[1],
                                            text |-> params.text[1], tags |-> tags,
                                            created |-> t1,
                                            sourceSession |-> memoryContext.sessionId]),
                              scope)
            /\ result' = Result("write", "Saved semantic memory", WriteDetails(Some("created"), Some(id)))

\* memoryWriteTool.execute
MemoryWrite(params) ==
    /\ CASE params.type = "procedural" -> WriteProcedural(params)
         [] params.type = "episodic" -> WriteEpisodic(params)
         [] params.type = "semantic" -> WriteSemantic(params)
    /\ UNCHANGED <<memoryContext, procs, input, output>>

----------------------------------------------------------------------------
(* tools/memory.ts: memory_update *)

\* memory_update parameters (memoryUpdateSchema); id is required
UpdateParams(id, text, steps, trigger, tags) ==
    [id |-> id, text |-> text, steps |-> steps, trigger |-> trigger, tags |-> tags]

\* the identifiers the calls name: every identifier the bounds let the allocator
\* issue, and one that is never stored
UnknownId == <<"x">>

KnownIds == {FormatId(prefix, n) : prefix \in {ProcPrefix, EpPrefix, SemPrefix}, n \in 1..MaxId}

IdInputs == KnownIds \cup {UnknownId}

\* the optional fields of an update: text, steps, trigger, tags
ChangeAll == <<Some(<<"A">>), Some(<<>>), Some("on push"), Some(<<TagB>>)>>

ChangeNothing == <<Some(<<>>), None, Some(""), None>>

ChangeText == <<Some(<<"b">>), None, None, None>>

UpdatesOf(ids, changes) ==
    { UpdateParams(id, f[1], f[2], f[3], f[4]) : id \in ids, f \in changes }

UpdateInputs == UpdatesOf(IdInputs, {ChangeAll})

UpdateDetails(updated) == [updated |-> updated]

\* the place of the record with the identifier, and the last place when there is none:
\* findIndex's -1 handed on as an index
IndexOfIdOrLast(mems, id) ==
    IF \E i \in 1..Len(mems) : mems[i].id = id
    THEN CHOOSE i \in 1..Len(mems) : mems[i].id = id /\ \A j \in 1..(i - 1) : mems[j].id # id
    ELSE Len(mems)

\* Array.prototype.find by identifier, as an index
IndexOfId(mems, id) == FindIndex([i \in 1..Len(mems) |-> mems[i].id = id])

\* the procedural branch of memory_update applied to the record
UpdateProc(proc, params, t1) ==
    LET a == IF IsSome(params.steps) THEN [proc EXCEPT !.steps = params.steps[1]] ELSE proc
        b == IF ~FalsyStr(params.trigger) THEN [a EXCEPT !.trigger = params.trigger[1]] ELSE a
        c == IF IsSome(params.tags) THEN [b EXCEPT !.tags = params.tags[1]] ELSE b
    IN [c EXCEPT !.updated = t1]

\* the semantic branch of memory_update applied to the record
UpdateSem(sem, params) ==
    LET a == IF ~FalsySeq(params.text) THEN [sem EXCEPT !.text = params.text[1]] ELSE sem
    IN IF IsSome(params.tags) THEN [a EXCEPT !.tags = params.tags[1]] ELSE a

\* the episodic branch of memory_update applied to the record
UpdateEp(ep, params) ==
    IF IsSome(params.tags) THEN [ep EXCEPT !.tags = params.tags[1]] ELSE ep

\* memoryUpdateTool.execute
MemoryUpdate(params) ==
    LET scope == memoryContext.scope
        procStore == LoadStore("procedural", scope)
        semStore == LoadStore("semantic", scope)
        epStore == LoadStore("episodic", scope)
        proc == IndexOfId(procStore, params.id)
        sem == IndexOfId(semStore, params.id)
        ep == IndexOfId(epStore, params.id)
    IN /\ IF proc # 0
          THEN /\ \E t1 \in Times :
                    files' = SaveStore("procedural",
                                 [procStore EXCEPT ![proc] = UpdateProc(@, params, t1)], scope)
               /\ result' = Result("update", "Updated procedural memory", UpdateDetails(TRUE))
          ELSE IF sem # 0
          THEN /\ files' = SaveStore("semantic",
                               [semStore EXCEPT ![sem] = UpdateSem(@, params)], scope)
               /\ result' = Result("update", "Updated semantic memory", UpdateDetails(TRUE))
          ELSE IF ep # 0
          THEN /\ files' = SaveStore("episodic",
                               [epStore EXCEPT ![ep] = UpdateEp(@, params)], scope)
               /\ result' = Result("update", "Updated episodic memory", UpdateDetails(TRUE))
          ELSE /\ result' = Result("update", "No memory found with ID", UpdateDetails(FALSE))
               /\ UNCHANGED files
       /\ UNCHANGED <<memoryContext, procs, input, output>>

----------------------------------------------------------------------------
(* tools/memory.ts: memory_delete *)

DeleteDetails(deleted) == [deleted |-> deleted]

DeleteOrder == <<"procedural", "episodic", "semantic">>

\* memoryDeleteTool.execute
MemoryDelete(id) ==
    LET scope == memoryContext.scope
        hit(k) == IndexOfId(LoadStore(DeleteOrder[k], scope), id) # 0
        first == FindIndex([k \in 1..3 |-> hit(k)])
    IN /\ IF first # 0
          THEN LET kind == DeleteOrder[first]
                   mems == LoadStore(kind, scope)
               IN /\ files' = SaveStore(kind, RemoveAt(mems, IndexOfId(mems, id)), scope)
                  /\ result' = Result("delete", "Deleted memory", DeleteDetails(TRUE))
          ELSE /\ result' = Result("delete", "No memory found with ID", DeleteDetails(FALSE))
               /\ UNCHANGED files
       /\ UNCHANGED <<memoryContext, procs, input, output>>

\* setMemoryToolContext
SetMemoryToolContext(ctx) ==
    /\ memoryContext' = ctx
    /\ UNCHANGED <<files, result, procs, input, output>>

----------------------------------------------------------------------------
(* The tool calls, one at a time, from empty stores *)

EmptyFiles == [scope \in Scopes |-> [kind \in Kinds |-> <<>>]]

NoResult == Result("none", "", NoDetails)

Init ==
    /\ files = EmptyFiles
    /\ memoryContext = [sessionId |-> "session_1", scope |-> "global"]
    /\ result = NoResult
    /\ issued = [scope \in Scopes |-> [kind \in Kinds |-> 0]]
    /\ procs = <<>>
    /\ input = <<>>
    /\ output = <<>>

Write == \E params \in WriteInputs : MemoryWrite(params)

Update == \E params \in UpdateInputs : MemoryUpdate(params)

Delete == \E id \in IdInputs : MemoryDelete(id)

Next ==
    \/ Write /\ UNCHANGED issued
    \/ Update /\ UNCHANGED issued
    \/ Delete /\ UNCHANGED issued

Spec == Init /\ [][Next]_vars

----------------------------------------------------------------------------
(* One collection with the full range of its inputs: the semantic collection *)

SemIds == {FormatId(SemPrefix, n) : n \in 1..MaxId} \cup {UnknownId}

WriteSem == \E params \in SemWriteInputs : MemoryWrite(params)

UpdateSem1 == \E params \in UpdatesOf(SemIds, {ChangeAll, ChangeNothing, ChangeText}) : MemoryUpdate(params)

DeleteSem == \E id \in SemIds : MemoryDelete(id)

NextSem ==
    \/ WriteSem /\ UNCHANGED issued
    \/ UpdateSem1 /\ UNCHANGED issued
    \/ DeleteSem /\ UNCHANGED issued

SpecSem == Init /\ [][NextSem]_vars

----------------------------------------------------------------------------
(* One collection with the full range of its inputs: the procedural collection *)

ProcIds == {FormatId(ProcPrefix, n) : n \in 1..MaxId} \cup {UnknownId}

WriteProc == \E params \in ProcWriteInputs : MemoryWrite(params)

UpdateProc1 == \E params \in UpdatesOf(ProcIds, {ChangeAll, ChangeNothing}) : MemoryUpdate(params)

DeleteProc == \E id \in ProcIds : MemoryDelete(id)

NextProc ==
    \/ WriteProc /\ UNCHANGED issued
    \/ UpdateProc1 /\ UNCHANGED issued
    \/ DeleteProc /\ UNCHANGED issued

SpecProc == Init /\ [][NextProc]_vars

\* the procedural collection under memory_write and memory_delete alone
NextRewrite ==
    \/ WriteProc /\ UNCHANGED issued
    \/ DeleteProc /\ UNCHANGED issued

SpecRewrite == Init /\ [][NextRewrite]_vars

----------------------------------------------------------------------------
(* Two processes on the same files: the steps of an episodic memory_write *)

Procs == {1, 2}

\* each process has its own tool context; both name the same scope
SessionOf(p) == IF p = 1 THEN "session_1" ELSE "session_2"

\* a process between calls
Idle == [pc |-> "idle", params |-> None, mems |-> <<>>, saved |-> None, returned |-> NoResult]

\* the call returns before reading the file: no summary
RejectStep(p, params) ==
    /\ procs[p].pc \in {"idle", "done"}
    /\ FalsyStr(params.summary)
    /\ procs' = [procs EXCEPT ![p] =
                    [pc |-> "done", params |-> Some(params), mems |-> <<>>, saved |-> None,
                     returned |-> Result("write", "Error: episodic memory requires a summary.", NoDetails)]]
    /\ UNCHANGED <<files, memoryContext, result, issued, input, output>>

\* loadStore: the process reads the file
LoadStep(p, params) ==
    LET mems == LoadStore("episodic", memoryContext.scope)
    IN /\ procs[p].pc \in {"idle", "done"}
       /\ ~FalsyStr(params.summary)
       /\ MayCreate(EpPrefix, mems)
       /\ procs' = [procs EXCEPT ![p] =
                       [pc |-> "loaded", params |-> Some(params), mems |-> mems, saved |-> None,
                        returned |-> NoResult]]
       /\ UNCHANGED <<files, memoryContext, result, issued, input, output>>

\* generateId, push, saveStore and return, on the array the process read
SaveStep(p) ==
    LET mems == procs[p].mems
        id == generateId(EpPrefix, mems)
        m == NewEpisode(procs[p].params[1], id, SessionOf(p), FirstTime)
    IN /\ procs[p].pc = "loaded"
       /\ files' = SaveStore("episodic", Append(mems, m), memoryContext.scope)
       /\ procs' = [procs EXCEPT ![p] =
                       [@ EXCEPT !.pc = "done", !.saved = Some(m),
                                 !.returned = Result("write", "Saved episodic memory",
                                                     WriteDetails(Some("created"), Some(id)))]]
       /\ UNCHANGED <<memoryContext, result, issued, input, output>>

InitConcurrent ==
    /\ files = EmptyFiles
    /\ memoryContext = [sessionId |-> "session_1", scope |-> "global"]
    /\ result = NoResult
    /\ issued = [scope \in Scopes |-> [kind \in Kinds |-> 0]]
    /\ procs = [p \in Procs |-> Idle]
    /\ input = <<>>
    /\ output = <<>>

Reject == \E p \in Procs : \E params \in EpWriteInputs : RejectStep(p, params)

Load == \E p \in Procs : \E params \in EpWriteInputs : LoadStep(p, params)

Save == \E p \in Procs : SaveStep(p)

NextConcurrent ==
    \/ Reject
    \/ Load
    \/ Save

SpecConcurrent == InitConcurrent /\ [][NextConcurrent]_vars

----------------------------------------------------------------------------
(* Two processes on the same files: the loads and saves of memory_write,        *)
(* memory_update and memory_delete.  A handler runs from a loadStore to the     *)
(* saveStore of the array it read; the other process may run in between.        *)

UpdateOrder == <<"procedural", "semantic", "episodic">>

\* the calls of the processes
RacingWrites ==
    { ProcWrite(Some("deploy"), Some("on deploy"), Some(<<"build">>), None),
      EpWrite(Some("fixed bug"), None, Some(<<TagA>>), None, None),
      SemWrite(Some("preference"), Some(<<"a">>), None) }

RacingIds == {FormatId(EpPrefix, 1), FormatId(ProcPrefix, 1)}

RacingCalls ==
    { [op |-> "write", params |-> params] : params \in RacingWrites }
        \cup { [op |-> "update", params |-> params] : params \in UpdatesOf(RacingIds, {ChangeAll}) }
        \cup { [op |-> "delete", params |-> [id |-> id]] : id \in RacingIds }

\* the files a call loads, in the order it loads them
ScanOrder(call) ==
    CASE call.op = "write" -> <<call.params.type>>
      [] call.op = "update" -> UpdateOrder
      [] call.op = "delete" -> DeleteOrder

\* what loadStore may return to process p: the file's array, or the empty array when
\* the other process is about to write the file (writeFileSync empties the file
\* before it writes; the text read in between does not parse)
Loadable(p, kind) ==
    {LoadStore(kind, memoryContext.scope)}
        \cup {<<>> : q \in {r \in Procs \ {p} : procs[r].pc = "loaded" /\ procs[r].kind = kind}}

\* does the call go on to saveStore with the array it loaded
Holds(call, mems) ==
    IF call.op = "write" THEN TRUE ELSE IndexOfId(mems, call.params.id) # 0

Waiting == [pc |-> "idle", call |-> None, k |-> 0, kind |-> "", mems |-> <<>>,
            returned |-> NoResult]

NotFound(call) ==
    IF call.op = "update"
    THEN Result("update", "No memory found with ID", UpdateDetails(FALSE))
    ELSE Result("delete", "No memory found with ID", DeleteDetails(FALSE))

\* process p at its k-th loadStore
Scan(p, call, k) ==
    LET kind == ScanOrder(call)[k]
    IN \E mems \in Loadable(p, kind) :
           /\ call.op = "write" => MayCreate(PrefixOf(kind), mems)
           /\ procs' = [procs EXCEPT ![p] =
                           IF Holds(call, mems)
                           THEN [pc |-> "loaded", call |-> Some(call), k |-> k, kind |-> kind,
                                 mems |-> mems, returned |-> NoResult]
                           ELSE IF k < Len(ScanOrder(call))
                           THEN [pc |-> "scanning", call |-> Some(call), k |-> k, kind |-> kind,
                                 mems |-> <<>>, returned |-> NoResult]
                           ELSE [pc |-> "done", call |-> None, k |-> 0, kind |-> "",
                                 mems |-> <<>>, returned |-> NotFound(call)]]
           /\ UNCHANGED <<files, memoryContext, result, issued, input, output>>

\* a call begins: its first loadStore
BeginCall(p, call) ==
    /\ procs[p].pc \in {"idle", "done"}
    /\ Scan(p, call, 1)

\* the identifier was not in the file: the next loadStore
NextLoad(p) ==
    /\ procs[p].pc = "scanning"
    /\ Scan(p, procs[p].call[1], procs[p].k + 1)

\* the record a write appends to the array it loaded
NewRecord(params, id, sessionId, t1) ==
    CASE params.type = "procedural" ->
             [id |-> id, name |-> params.name[1], trigger |-> params.trigger[1],
              steps |-> params.steps[1], tags |-> OrElse(params.tags, <<>>),
              created |-> t1, updated |-> t1, sourceSession |-> sessionId]
      [] params.type = "episodic" -> NewEpisode(params, id, sessionId, t1)
      [] params.type = "semantic" ->
             [id |-> id, category |-> params.category[1], text |-> params.text[1],
              tags |-> OrElse(params.tags, <<>>), created |-> t1, sourceSession |-> sessionId]

\* the stored record a write meets: the procedure of its name, the fact it repeats
Met(params, mems) ==
    CASE params.type = "procedural" ->
             FindIndex([i \in 1..Len(mems) |-> mems[i].name = params.name[1]])
      [] params.type = "episodic" -> 0
      [] params.type = "semantic" ->
             FindIndex([i \in 1..Len(mems) |-> SameFact(mems[i], params)])

\* the array the call saves, from the array it loaded; None when it saves nothing
ToSave(p, call, kind, mems) ==
    LET params == call.params
    IN CASE call.op = "write" ->
                IF Met(params, mems) = 0
                THEN Some(Append(mems, NewRecord(params, generateId(PrefixOf(kind), mems),
                                                 SessionOf(p), FirstTime)))
                ELSE IF kind = "procedural"
                THEN Some([mems EXCEPT ![Met(params, mems)] =
                              [@ EXCEPT !.steps = params.steps[1], !.trigger = params.trigger[1],
                                        !.tags = Dedup(@ \o OrElse(params.tags, <<>>)),
                                        !.updated = FirstTime]])
                ELSE None
         [] call.op = "update" ->
                LET i == IndexOfId(mems, params.id)
                IN Some([mems EXCEPT ![i] =
                            CASE kind = "procedural" -> UpdateProc(@, params, FirstTime)
                              [] kind = "semantic" -> UpdateSem(@, params)
                              [] kind = "episodic" -> UpdateEp(@, params)])
         [] call.op = "delete" -> Some(RemoveAt(mems, IndexOfId(mems, params.id)))

\* what the call returns
Returned(call, kind, mems) ==
    CASE call.op = "write" ->
             IF Met(call.params, mems) = 0
             THEN Result("write", "Saved memory",
                         WriteDetails(Some("created"), Some(generateId(PrefixOf(kind), mems))))
             ELSE Result("write", "Stored memory met",
                         WriteDetails(Some(IF kind = "procedural" THEN "updated" ELSE "duplicate"),
                                      Some(mems[Met(call.params, mems)].id)))
      [] call.op = "update" -> Result("update", "Updated memory", UpdateDetails(TRUE))
      [] call.op = "delete" -> Result("delete", "Deleted memory", DeleteDetails(TRUE))

\* the rest of the handler: saveStore of the array the process loaded, and return
Commit(p) ==
    LET call == procs[p].call[1]
        kind == procs[p].kind
        mems == procs[p].mems
        saved == ToSave(p, call, kind, mems)
    IN /\ procs[p].pc = "loaded"
       /\ files' = IF IsSome(saved) THEN SaveStore(kind, saved[1], memoryContext.scope) ELSE files
       /\ procs' = [procs EXCEPT ![p] =
                       [pc |-> "done", call |-> None, k |-> 0, kind |-> "", mems |-> <<>>,
                        returned |-> Returned(call, kind, mems)]]
       /\ UNCHANGED <<memoryContext, result, issued, input, output>>

InitRaces ==
    /\ files = EmptyFiles
    /\ memoryContext = [sessionId |-> "session_1", scope |-> "global"]
    /\ result = NoResult
    /\ issued = [scope \in Scopes |-> [kind \in Kinds |-> 0]]
    /\ procs = [p \in Procs |-> Waiting]
    /\ input = <<>>
    /\ output = <<>>

Begin == \E p \in Procs : \E call \in RacingCalls : BeginCall(p, call)

LoadOn == \E p \in Procs : NextLoad(p)

SaveOn == \E p \in Procs : Commit(p)

NextRaces ==
    \/ Begin
    \/ LoadOn
    \/ SaveOn

SpecRaces == InitRaces /\ [][NextRaces]_vars

----------------------------------------------------------------------------
(* core/memory.ts: compactEpisodicMemories *)

\* Array.prototype.join(sep) of character-sequence strings
RECURSIVE Join(_, _)
Join(strs, sep) ==
    IF Len(strs) = 0 THEN <<>>
    ELSE IF Len(strs) = 1 THEN strs[1]
    ELSE Join(SubSeq(strs, 1, Len(strs) - 1), sep) \o sep \o strs[Len(strs)]

\* String.prototype.split(c) on a one-character separator
RECURSIVE Split(_, _)
Split(s, c) ==
    IF \E i \in 1..Len(s) : s[i] = c
    THEN LET i == CHOOSE k \in 1..Len(s) : s[k] = c /\ \A j \in 1..(k - 1) : s[j] # c
         IN <<SubSeq(s, 1, i - 1)>> \o Split(SubSeq(s, i + 1, Len(s)), c)
    ELSE <<s>>

\* Array.prototype.flat, the second half of flatMap
RECURSIVE Flat(_)
Flat(ss) == IF Len(ss) = 0 THEN <<>> ELSE ss[1] \o Flat(SubSeq(ss, 2, Len(ss)))

\* a Map is the sequence of its entries in insertion order
MapHas(map, key) == \E i \in 1..Len(map) : map[i].key = key

\* Map.prototype.delete
MapDelete(map, key) == SelectSeq(map, LAMBDA e : e.key # key)

\* Map.prototype.set: a key the map holds keeps its place, a new key goes last
MapSet(map, key, value) ==
    IF MapHas(map, key)
    THEN [i \in 1..Len(map) |-> IF map[i].key = key THEN [key |-> key, value |-> value] ELSE map[i]]
    ELSE Append(map, [key |-> key, value |-> value])

Comma == <<",">>

\* new Set(key.split(","))
GroupTags(key) == Dedup(Split(key, ","))

\* one turn of the loop over memories: m joins the first group it shares a tag with,
\* or opens a group
Place(tagGroups, m) ==
    LET shares(e) == \E i \in 1..Len(m.tags) : m.tags[i] \in Range(GroupTags(e.key))
        idx == FindIndex([k \in 1..Len(tagGroups) |-> shares(tagGroups[k])])
    IN IF idx # 0
       THEN LET key == tagGroups[idx].key
                group == Append(tagGroups[idx].value, m)
                mergedTags == Dedup(GroupTags(key) \o m.tags)
            IN MapSet(MapDelete(tagGroups, key), Join(mergedTags, Comma), group)
       ELSE LET joined == Join(m.tags, Comma)
            IN MapSet(tagGroups, IF Len(joined) = 0 THEN m.id ELSE joined, <<m>>)

\* tagGroups after the loop over memories
RECURSIVE TagGroups(_)
TagGroups(memories) ==
    IF Len(memories) = 0 THEN <<>>
    ELSE Place(TagGroups(SubSeq(memories, 1, Len(memories) - 1)), memories[Len(memories)])

\* m.reflection?.mistakes ?? []
MistakesOf(m) == IF IsSome(m.reflection) THEN m.reflection[1].mistakes ELSE <<>>

\* m.reflection?.lessons ?? []
LessonsOf(m) == IF IsSome(m.reflection) THEN m.reflection[1].lessons ELSE <<>>

ConsolidatedPrefix ==
    <<"C", "o", "n", "s", "o", "l", "i", "d", "a", "t", "e", "d", ":", " ">>

SummarySeparator == <<";", " ">>

\* the record pushed for a group of two or more
Consolidate(group) ==
    LET allDetails == Flat([i \in 1..Len(group) |-> group[i].details])
        allTags == Dedup(Flat([i \in 1..Len(group) |-> group[i].tags]))
        allMistakes == Flat([i \in 1..Len(group) |-> MistakesOf(group[i])])
        allLessons == Flat([i \in 1..Len(group) |-> LessonsOf(group[i])])
        summaries == [i \in 1..Len(group) |-> group[i].summary]
    IN [id |-> group[1].id,
        summary |-> ConsolidatedPrefix \o Join(summaries, SummarySeparator),
        details |-> Dedup(allDetails),
        reflection |-> IF Len(allMistakes) > 0 \/ Len(allLessons) > 0
                       THEN Some([mistakes |-> Dedup(allMistakes), lessons |-> Dedup(allLessons)])
                       ELSE None,
        tags |-> allTags,
        date |-> group[Len(group)].date,
        sourceSession |-> group[Len(group)].sourceSession]

\* what one group contributes to compacted
Compacted(group) == IF Len(group) <= 1 THEN group ELSE <<Consolidate(group)>>

\* compactEpisodicMemories
compactEpisodicMemories(memories) ==
    IF Len(memories) <= 1 THEN memories
    ELSE LET tagGroups == TagGroups(memories)
         IN Flat([k \in 1..Len(tagGroups) |-> Compacted(tagGroups[k].value)])

----------------------------------------------------------------------------
(* compactEpisodicMemories applied to lists of episodes *)

Chars3(a, b, c) == <<a, b, c>>

\* the tag lists of the episodes: none, one tag, two tags, a tag that reads as an
\* identifier, a tag that holds a comma
TagLists ==
    { <<>>, <<TagA>>, <<TagB>>, <<TagA, TagB>>,
      <<FormatId(EpPrefix, 1)>>, <<Chars3("a", ",", "b")>> }

\* what else an episode holds: details, reflection, session
Contents ==
    { [details |-> <<"d1">>, reflection |-> None, sourceSession |-> "session_1"],
      [details |-> <<"d1", "d2">>,
       reflection |-> Some([mistakes |-> <<"m1">>, lessons |-> <<>>]),
       sourceSession |-> "session_2"] }

\* the episode at place i of a stored list: identifiers and dates grow along the list
Episode(i, tags, content) ==
    [id |-> FormatId(EpPrefix, i), summary |-> <<"s", DigitChars[i + 1]>>,
     details |-> content.details, reflection |-> content.reflection,
     tags |-> tags, date |-> ISODate(i), sourceSession |-> content.sourceSession]

\* the list of n episodes with tag lists tl and contents cs
EpisodeList(n, tl, cs) == [i \in 1..n |-> Episode(i, tl[i], cs[i])]

InitCompact ==
    /\ files = EmptyFiles
    /\ memoryContext = [sessionId |-> "session_1", scope |-> "global"]
    /\ result = NoResult
    /\ issued = [scope \in Scopes |-> [kind \in Kinds |-> 0]]
    /\ procs = <<>>
    /\ \E n \in 0..MaxEpisodes : \E tl \in [1..n -> TagLists] : \E cs \in [1..n -> Contents] :
           input = <<EpisodeList(n, tl, cs)>>
    /\ output = None

\* one call of compactEpisodicMemories(input)
Compact ==
    /\ output = None
    /\ output' = Some(compactEpisodicMemories(input[1]))
    /\ UNCHANGED <<files, memoryContext, result, issued, procs, input>>

NextCompact == Compact

SpecCompact == InitCompact /\ [][NextCompact]_vars

----------------------------------------------------------------------------
(* The loop of compactEpisodicMemories over memories, one turn at a time *)

MaxClustered == 4

\* tag lists of plain tags
PlainTagLists == { <<>>, <<TagA>>, <<TagB>>, <<TagA, TagB>> }

PlainContent == [details |-> <<"d1">>, reflection |-> None, sourceSession |-> "session_1"]

\* input: memories; output: the number of turns taken and tagGroups after them
InitCluster ==
    /\ files = EmptyFiles
    /\ memoryContext = [sessionId |-> "session_1", scope |-> "global"]
    /\ result = NoResult
    /\ issued = [scope \in Scopes |-> [kind \in Kinds |-> 0]]
    /\ procs = <<>>
    /\ \E n \in 2..MaxClustered : \E tl \in [1..n -> PlainTagLists] :
           input = <<EpisodeList(n, tl, [i \in 1..n |-> PlainContent])>>
    /\ output = [turns |-> 0, tagGroups |-> <<>>]

\* for (const m of memories) { ... }: the next turn
PlaceNext ==
    /\ output.turns < Len(input[1])
    /\ output' = [turns |-> output.turns + 1,
                  tagGroups |-> Place(output.tagGroups, input[1][output.turns + 1])]
    /\ UNCHANGED <<files, memoryContext, result, issued, procs, input>>

NextCluster == PlaceNext

SpecCluster == InitCluster /\ [][NextCluster]_vars

----------------------------------------------------------------------------
(* core/memory.ts: searchMemories *)

Tab == "\t"

\* the characters the regular expression \s matches, of those the model writes
IsSpace(c) == c \in {" ", Tab}

\* String.prototype.split(/\s+/): the pieces between runs of white space
RECURSIVE SplitSpaces(_)
SplitSpaces(s) ==
    IF \E i \in 1..Len(s) : IsSpace(s[i])
    THEN LET i == CHOOSE k \in 1..Len(s) : IsSpace(s[k]) /\ \A j \in 1..(k - 1) : ~IsSpace(s[j])
             after == SubSeq(s, i, Len(s))
             run == IF \E k \in 1..Len(after) : ~IsSpace(after[k])
                    THEN (CHOOSE k \in 1..Len(after) :
                              ~IsSpace(after[k]) /\ \A j \in 1..(k - 1) : IsSpace(after[j])) - 1
                    ELSE Len(after)
         IN <<SubSeq(s, 1, i - 1)>> \o SplitSpaces(SubSeq(after, run + 1, Len(after)))
    ELSE <<s>>

\* Array.prototype.filter on the callback's values
RECURSIVE Filter(_, _)
Filter(s, keeps) ==
    IF Len(s) = 0 THEN <<>>
    ELSE (IF keeps[1] THEN <<s[1]>> ELSE <<>>)
             \o Filter(SubSeq(s, 2, Len(s)), SubSeq(keeps, 2, Len(keeps)))

\* a prefix test in place of includes
StartsWith(s, w) == OccursAt(s, w, 1)

\* String.prototype.includes
Includes(s, w) == \E i \in 1..(Len(s) + 1) : OccursAt(s, w, i)

\* lower.split(/\s+/).filter(Boolean)
QueryWords(query) ==
    LET pieces == SplitSpaces(ToLowerCase(query))
    IN Filter(pieces, [i \in 1..Len(pieces) |-> Len(pieces[i]) > 0])

\* `${text} ${tagText}` for a record whose getText value is text
Combined(text, tags) == ToLowerCase(text) \o <<" ">> \o ToLowerCase(Join(tags, <<" ">>))

\* searchMemories; texts[i] is getText(memories[i])
searchMemories(memories, query, texts) ==
    LET queryWords == QueryWords(query)
        keep(i) == \A k \in 1..Len(queryWords) :
                       Includes(Combined(texts[i], memories[i].tags), queryWords[k])
    IN Filter(memories, [i \in 1..Len(memories) |-> keep(i)])

----------------------------------------------------------------------------
(* searchMemories applied to lists of facts and queries *)

\* length of the list handed to searchMemories
MaxSearched == 2

\* length of the query
MaxQuery == 3

QueryChars == {"a", "B", " ", Tab}

\* the facts searched: text and tags in both cases, a tag the text lacks
Searchable ==
    { [text |-> <<"a", "b">>, tags |-> <<>>],
      [text |-> <<"A">>, tags |-> <<(<<"b">>)>>],
      [text |-> <<"b">>, tags |-> <<(<<"a">>), (<<"B">>)>>] }

\* getText of the facts
TextsOf(memories) == [i \in 1..Len(memories) |-> memories[i].text]

InitSearch ==
    /\ files = EmptyFiles
    /\ memoryContext = [sessionId |-> "session_1", scope |-> "global"]
    /\ result = NoResult
    /\ issued = [scope \in Scopes |-> [kind \in Kinds |-> 0]]
    /\ procs = <<>>
    /\ \E n \in 0..MaxSearched : \E memories \in [1..n -> Searchable] :
       \E q \in 0..MaxQuery : \E query \in [1..q -> QueryChars] :
           input = <<memories, query>>
    /\ output = None

\* one call of searchMemories
Search ==
    /\ output = None
    /\ output' = Some(searchMemories(input[1], input[2], TextsOf(input[1])))
    /\ UNCHANGED <<files, memoryContext, result, issued, procs, input>>

NextSearch == Search

SpecSearch == InitSearch /\ [][NextSearch]_vars

----------------------------------------------------------------------------
(* core/memory.ts: the store files as JSON text *)

(* A JSON text is the tree JSON.parse reads from it: <<"null">>, <<"number", n>>, *)
(* <<"string", s>>, <<"array", elements>>, <<"object", properties>>, and          *)
(* <<"garbage">> for a text that is not JSON.  A file is <<"absent">> or          *)
(* <<"text", tree>>.                                                              *)

ArrayFields == {"steps", "tags", "details"}

JString(v) == <<"string", v>>

JArray(elems) == <<"array", elems>>

JObject(props) == <<"object", props>>

JStrings(v) == JArray([i \in 1..Len(v) |-> JString(v[i])])

\* JSON.stringify of the value of property k
StringifyField(k, v) ==
    IF k \in ArrayFields THEN JStrings(v)
    ELSE IF k = "reflection"
         THEN JObject([f \in {"mistakes", "lessons"} |-> JStrings(v[1][f])])
         ELSE JString(v)

\* JSON.stringify leaves out a property whose value is undefined
IsUndefined(m, k) == IF k = "reflection" THEN m[k] = None ELSE FALSE

\* JSON.stringify of a record
StringifyRecord(m) ==
    JObject([k \in {f \in DOMAIN m : ~IsUndefined(m, f)} |-> StringifyField(k, m[k])])

\* JSON.stringify(store, null, 2) of the store { memories }
JSONStringify(memories) ==
    JObject([f \in {"memories"} |-> JArray([i \in 1..Len(memories) |-> StringifyRecord(memories[i])])])

\* { memories: [] }
EmptyStore == JObject([f \in {"memories"} |-> JArray(<<>>)])

Absent == <<"absent">>

FileText(tree) == <<"text", tree>>

\* loadStore on the file system disk: what it returns; it throws in no case
loadStore(disk, kind, scope) ==
    LET file == disk[scope][kind]
    IN IF file[1] = "absent" THEN EmptyStore
       ELSE IF file[2][1] = "garbage" THEN EmptyStore
       ELSE file[2]

\* saveStore writing under the default scope whatever scope it is given
saveStoreDefaultScope(disk, kind, memories, scope) ==
    [disk EXCEPT !["global"][kind] = FileText(JSONStringify(memories))]

\* saveStore on the file system disk: the file system afterwards
saveStore(disk, kind, memories, scope) ==
    [disk EXCEPT ![scope][kind] = FileText(JSONStringify(memories))]

\* store.memories of a value loadStore returned: <<"undefined">> when the value has no
\* such property, <<"throws">> when the value is null
StoreMemories(store) ==
    IF store[1] = "null" THEN <<"throws">>
    ELSE IF store[1] = "object"
         THEN (IF "memories" \in DOMAIN store[2] THEN store[2].memories ELSE <<"undefined">>)
         ELSE <<"undefined">>

\* the value of property k of a parsed record, as the model writes it
ReadField(obj, k) ==
    IF k = "reflection"
    THEN (IF k \in DOMAIN obj[2]
          THEN Some([f \in {"mistakes", "lessons"} |->
                        [i \in 1..Len(obj[2][k][2][f][2]) |-> obj[2][k][2][f][2][i][2]]])
          ELSE None)
    ELSE IF k \in ArrayFields
         THEN [i \in 1..Len(obj[2][k][2]) |-> obj[2][k][2][i][2]]
         ELSE obj[2][k][2]

\* the properties of the records of a kind
FieldsOf(kind) ==
    CASE kind = "procedural" ->
             {"id", "name", "trigger", "steps", "tags", "created", "updated", "sourceSession"}
      [] kind = "episodic" ->
             {"id", "summary", "details", "reflection", "tags", "date", "sourceSession"}
      [] kind = "semantic" ->
             {"id", "category", "text", "tags", "created", "sourceSession"}

\* the records of a store of the given kind that loadStore returned from a file
\* saveStore wrote
RecordsRead(kind, store) ==
    LET elems == StoreMemories(store)[2]
    IN [i \in 1..Len(elems) |-> [k \in FieldsOf(kind) |-> ReadField(elems[i], k)]]

----------------------------------------------------------------------------
(* saveStore and loadStore applied to stores and file systems *)

\* length of the collection handed to saveStore
MaxStored == 2

\* the records saved, by kind
Storable(kind) ==
    CASE kind = "procedural" ->
             { [id |-> FormatId(ProcPrefix, 1), name |-> "deploy", trigger |-> "on deploy",
                steps |-> <<"build", "push">>, tags |-> <<TagA>>, created |-> 1,
                updated |-> 2, sourceSession |-> "session_1"],
               [id |-> FormatId(ProcPrefix, 2), name |-> "test", trigger |-> "on change",
                steps |-> <<"run tests">>, tags |-> <<>>, created |-> 1,
                updated |-> 1, sourceSession |-> "session_2"] }
      [] kind = "episodic" ->
             { [id |-> FormatId(EpPrefix, 1), summary |-> "fixed bug", details |-> <<"d1">>,
                reflection |-> Some([mistakes |-> <<"m1">>, lessons |-> <<>>]),
                tags |-> <<TagA, TagB>>, date |-> ISODate(1), sourceSession |-> "session_1"],
               [id |-> FormatId(EpPrefix, 2), summary |-> "added test", details |-> <<>>,
                reflection |-> None,
                tags |-> <<>>, date |-> ISODate(2), sourceSession |-> "session_1"] }
      [] kind = "semantic" ->
             { [id |-> FormatId(SemPrefix, 1), category |-> "preference", text |-> <<"a">>,
                tags |-> <<>>, created |-> 1, sourceSession |-> "session_1"],
               [id |-> FormatId(SemPrefix, 2), category |-> "fact", text |-> <<"A">>,
                tags |-> <<TagA>>, created |-> 2, sourceSession |-> "session_2"] }

\* what the file may hold before the calls: nothing, a text that is not JSON, JSON of
\* another shape, a store
FilesBefore ==
    { Absent, FileText(<<"garbage">>), FileText(<<"null">>), FileText(JObject(<<>>)),
      FileText(JArray(<<>>)), FileText(JObject([f \in {"memories"} |-> <<"number", 5>>])),
      FileText(EmptyStore) }

NoFiles == [scope \in Scopes |-> [kind \in Kinds |-> Absent]]

\* input: the scope, kind and collection of the calls; output: the file system, and
\* what loadStore returned
InitStore ==
    /\ files = EmptyFiles
    /\ memoryContext = [sessionId |-> "session_1", scope |-> "global"]
    /\ result = NoResult
    /\ issued = [scope \in Scopes |-> [kind \in Kinds |-> 0]]
    /\ procs = <<>>
    /\ \E scope \in Scopes : \E kind \in Kinds :
       \E n \in 0..MaxStored : \E memories \in [1..n -> Storable(kind)] :
       \E file \in FilesBefore :
           /\ input = <<scope, kind, memories>>
           /\ output = [disk |-> [NoFiles EXCEPT ![scope][kind] = file],
                        saved |-> FALSE, returned |-> None]

\* saveStore(cwd, filename, { memories }, scope)
StoreSave ==
    /\ ~output.saved
    /\ output.returned = None
    /\ output' = [output EXCEPT !.disk = saveStore(@, input[2], input[3], input[1]),
                                !.saved = TRUE]
    /\ UNCHANGED <<files, memoryContext, result, issued, procs, input>>

\* loadStore(cwd, filename, scope)
StoreLoad ==
    /\ output.returned = None
    /\ output' = [output EXCEPT !.returned = Some(loadStore(output.disk, input[2], input[1]))]
    /\ UNCHANGED <<files, memoryContext, result, issued, procs, input>>

NextStore ==
    \/ StoreSave
    \/ StoreLoad

SpecStore == InitStore /\ [][NextStore]_vars

----------------------------------------------------------------------------
(* core/memory.ts: the display formatters; tools/memory.ts: memory_read *)

(* A text a formatter builds is the sequence of the pieces of its template: the  *)
(* literal parts and the values put between them.                                *)

\* pieces.join(sep) for texts: the pieces of each, the separator between
RECURSIVE JoinTexts(_, _)
JoinTexts(texts, sep) ==
    IF Len(texts) = 0 THEN <<>>
    ELSE IF Len(texts) = 1 THEN texts[1]
    ELSE JoinTexts(SubSeq(texts, 1, Len(texts) - 1), sep) \o <<sep>> \o texts[Len(texts)]

\* m.tags.join(", ")
TagLine(tags) == Join(tags, <<",", " ">>)

\* items.map((x) => `    - ${x}`).join("\n")
Bullets(items) == JoinTexts([i \in 1..Len(items) |-> <<"    - ", items[i]>>], "\n")

\* formatProceduralForDisplay
formatProceduralForDisplay(m) ==
    LET steps == JoinTexts([i \in 1..Len(m.steps) |-> <<"  ", i, ". ", m.steps[i]>>], "\n")
    IN <<"[", m.id, "] ", m.name, "\n  Trigger: ", m.trigger, "\n  Tags: ", TagLine(m.tags),
         "\n  Steps:\n">> \o steps \o <<"\n  Updated: ", m.updated>>

\* formatEpisodicForDisplay
formatEpisodicForDisplay(m) ==
    LET head == <<"[", m.id, "] ", m.summary, "\n  Date: ", m.date, "\n  Tags: ", TagLine(m.tags)>>
        details == IF Len(m.details) > 0
                   THEN <<"\n  Details:\n">> \o Bullets(m.details) ELSE <<>>
        mistakes == IF IsSome(m.reflection)
                    THEN (IF Len(m.reflection[1].mistakes) > 0
                          THEN <<"\n  Mistakes:\n">> \o Bullets(m.reflection[1].mistakes)
                          ELSE <<>>)
                    ELSE <<>>
        lessons == IF IsSome(m.reflection)
                   THEN (IF Len(m.reflection[1].lessons) > 0
                         THEN <<"\n  Lessons:\n">> \o Bullets(m.reflection[1].lessons)
                         ELSE <<>>)
                   ELSE <<>>
    IN head \o details \o mistakes \o lessons

\* formatSemanticForDisplay
formatSemanticForDisplay(m) ==
    <<"[", m.id, "] (", m.category, ") ", m.text, "\n  Tags: ", TagLine(m.tags),
      "\n  Created: ", m.created>>

\* the formatter memory_read pairs with the file of the kind
Format(kind, m) ==
    CASE kind = "procedural" -> formatProceduralForDisplay(m)
      [] kind = "episodic" -> formatEpisodicForDisplay(m)
      [] kind = "semantic" -> formatSemanticForDisplay(m)

\* the characters of the strings the model writes as words
Chars(str) ==
    CASE str = "" -> <<>>
      [] str = "deploy" -> <<"d", "e", "p", "l", "o", "y">>
      [] str = "test" -> <<"t", "e", "s", "t">>
      [] str = "lint" -> <<"l", "i", "n", "t">>
      [] str = "on deploy" -> <<"o", "n", " ", "d", "e", "p", "l", "o", "y">>
      [] str = "on release" -> <<"o", "n", " ", "r", "e", "l", "e", "a", "s", "e">>
      [] str = "on change" -> <<"o", "n", " ", "c", "h", "a", "n", "g", "e">>
      [] str = "on push" -> <<"o", "n", " ", "p", "u", "s", "h">>
      [] str = "build" -> <<"b", "u", "i", "l", "d">>
      [] str = "push" -> <<"p", "u", "s", "h">>
      [] str = "tag" -> <<"t", "a", "g">>
      [] str = "run tests" -> <<"r", "u", "n", " ", "t", "e", "s", "t", "s">>
      [] str = "fixed bug" -> <<"f", "i", "x", "e", "d", " ", "b", "u", "g">>
      [] str = "added test" -> <<"a", "d", "d", "e", "d", " ", "t", "e", "s", "t">>
      [] str = "d1" -> <<"d", "1">>
      [] str = "m1" -> <<"m", "1">>
      [] str = "preference" -> <<"p", "r", "e", "f", "e", "r", "e", "n", "c", "e">>
      [] str = "fact" -> <<"f", "a", "c", "t">>

Space == <<" ">>

\* the getText callbacks memory_read hands to searchMemories
GetText(kind, m) ==
    CASE kind = "procedural" ->
             Chars(m.name) \o Space \o Chars(m.trigger) \o Space
                 \o Join([i \in 1..Len(m.steps) |-> Chars(m.steps[i])], Space)
      [] kind = "episodic" ->
             Chars(m.summary) \o Space
                 \o Join([i \in 1..Len(m.details) |-> Chars(m.details[i])], Space)
      [] kind = "semantic" -> Chars(m.category) \o Space \o m.text

\* memory_read parameters (memoryReadSchema); each is optional
ReadParams(type, id, query) == [type |-> type, id |-> id, query |-> query]

ReadOrder == <<"procedural", "episodic", "semantic">>

Headings ==
    [procedural |-> "=== Procedural Memories ===", episodic |-> "=== Episodic Memories ===",
     semantic |-> "=== Semantic Memories ==="]

\* memoryReadTool.execute with an id: the first file, in order, that holds it
ReadById(id) ==
    LET scope == memoryContext.scope
        hit(k) == IndexOfId(LoadStore(ReadOrder[k], scope), id) # 0
        first == FindIndex([k \in 1..3 |-> hit(k)])
    IN IF first # 0
       THEN LET kind == ReadOrder[first]
                mems == LoadStore(kind, scope)
            IN Result("read", Format(kind, mems[IndexOfId(mems, id)]), [found |-> TRUE])
       ELSE Result("read", <<"No memory found with ID \"", id, "\".">>, [found |-> FALSE])

\* is the kind among those a read of the type looks at
Reads(type, kind) == type = "all" \/ type = kind

\* memoryReadTool.execute with a query and no id
ReadByQuery(type, query) ==
    LET scope == memoryContext.scope
        found(kind) ==
            IF Reads(type, kind)
            THEN LET mems == LoadStore(kind, scope)
                     matches == searchMemories(mems, query,
                                               [i \in 1..Len(mems) |-> GetText(kind, mems[i])])
                 IN [i \in 1..Len(matches) |-> Format(kind, matches[i])]
            ELSE <<>>
        results == found("procedural") \o found("episodic") \o found("semantic")
    IN IF Len(results) = 0
       THEN Result("read", <<"No memories found matching \"", query, "\".">>, [count |-> 0])
       ELSE Result("read", JoinTexts(results, "\n\n"), [count |-> Len(results)])

\* memoryReadTool.execute with neither: the listing
ReadAll(type) ==
    LET scope == memoryContext.scope
        listed(kind) ==
            IF Reads(type, kind)
            THEN LET mems == LoadStore(kind, scope)
                 IN IF Len(mems) > 0
                    THEN <<(<<Headings[kind]>>)>> \o [i \in 1..Len(mems) |-> Format(kind, mems[i])]
                    ELSE <<>>
            ELSE <<>>
        results == listed("procedural") \o listed("episodic") \o listed("semantic")
    IN IF Len(results) = 0
       THEN Result("read", <<"No memories stored yet.">>, [count |-> 0])
       ELSE Result("read", JoinTexts(results, "\n\n"), [count |-> Len(results)])

\* memory_read looking at the query before the id
MemoryReadQueryFirst(params) ==
    /\ result' = IF ~FalsySeq(params.query)
                 THEN ReadByQuery(OrElse(params.type, "all"), params.query[1])
                 ELSE IF ~FalsySeq(params.id) THEN ReadById(params.id[1])
                      ELSE ReadAll(OrElse(params.type, "all"))
    /\ UNCHANGED <<files, memoryContext, procs, input, output>>

\* memoryReadTool.execute
MemoryRead(params) ==
    /\ result' = IF ~FalsySeq(params.id) THEN ReadById(params.id[1])
                 ELSE IF ~FalsySeq(params.query)
                      THEN ReadByQuery(OrElse(params.type, "all"), params.query[1])
                      ELSE ReadAll(OrElse(params.type, "all"))
    /\ UNCHANGED <<files, memoryContext, procs, input, output>>

\* the reads: of every identifier, a query, listings, and an id with a query
ReadInputs ==
    { ReadParams(None, Some(id), None) : id \in IdInputs }
    \cup { ReadParams(None, None, Some(<<"B">>)),
           ReadParams(Some("semantic"), None, None),
           ReadParams(Some("all"), Some(<<>>), Some(<<>>)),
           ReadParams(Some("episodic"), Some(FormatId(SemPrefix, 1)), Some(<<"B">>)) }

Read == \E params \in ReadInputs : MemoryRead(params)

\* the writes before the reads: one valid write of each kind, a second fact, a
\* rejected write
WriteRead ==
    \E params \in { ProcWrite(Some("deploy"), Some("on deploy"), Some(<<"build", "push">>), Some(<<TagA>>)),
                     EpWrite(Some("fixed bug"), Some(<<"d1">>), Some(<<TagA>>), Some(<<"m1">>), None),
                     SemWrite(Some("preference"), Some(<<"a">>), None),
                     SemWrite(Some("preference"), Some(<<"b">>), Some(<<TagB>>)),
                     SemWrite(None, Some(<<"a">>), None) } :
        MemoryWrite(params)

NextRead ==
    \/ WriteRead /\ UNCHANGED issued
    \/ Delete /\ UNCHANGED issued
    \/ Read /\ UNCHANGED issued

SpecRead == Init /\ [][NextRead]_vars

----------------------------------------------------------------------------
(* memory_write alone, the rejected writes among the accepted ones *)

WriteAny == \E params \in WriteInputs \cup RejectedWrites : MemoryWrite(params)

NextWrite == WriteAny /\ UNCHANGED issued

SpecWrite == Init /\ [][NextWrite]_vars

----------------------------------------------------------------------------
(* memory_update on the records of the three kinds *)

NextUpdate ==
    \/ WriteRead /\ UNCHANGED issued
    \/ Update /\ UNCHANGED issued

SpecUpdate == Init /\ [][NextUpdate]_vars

----------------------------------------------------------------------------
(* The tool calls under a tool context that changes scope between them *)

SetContext ==
    \E ctx \in {c \in Contexts : c.sessionId = "session_1"} : SetMemoryToolContext(ctx)

\* the identifiers of the calls: the first fact, the first episode, and none stored
ScopedIds == {FormatId(SemPrefix, 1), FormatId(EpPrefix, 1), UnknownId}

ScopedReads ==
    { ReadParams(None, Some(id), None) : id \in ScopedIds }
        \cup { ReadParams(Some("all"), Some(<<>>), Some(<<>>)) }

WriteScoped ==
    \E params \in { SemWrite(Some("preference"), Some(<<"a">>), None),
                     EpWrite(Some("fixed bug"), Some(<<"d1">>), Some(<<TagA>>), None, None) } :
        MemoryWrite(params)

UpdateScoped == \E params \in UpdatesOf(ScopedIds, {ChangeAll}) : MemoryUpdate(params)

DeleteScoped == \E id \in ScopedIds : MemoryDelete(id)

ReadScoped == \E params \in ScopedReads : MemoryRead(params)

NextScoped ==
    \/ SetContext /\ UNCHANGED issued
    \/ WriteScoped /\ UNCHANGED issued
    \/ UpdateScoped /\ UNCHANGED issued
    \/ DeleteScoped /\ UNCHANGED issued
    \/ ReadScoped /\ UNCHANGED issued

SpecScoped == Init /\ [][NextScoped]_vars

----------------------------------------------------------------------------
(* The .zpi file and the scope of the project *)

JNull == <<"null">>

JNumber(n) == <<"number", n>>

JBool(b) == <<"bool", b>>

Undefined == <<"undefined">>

\* value.key, with ?. in front: undefined on null and undefined, and on a value
\* without that property
Get(value, key) ==
    IF value[1] = "object"
    THEN IF key \in DOMAIN value[2] THEN value[2][key] ELSE Undefined
    ELSE Undefined

\* what an if takes for true
Truthy(value) ==
    CASE value[1] = "undefined" -> FALSE
      [] value[1] = "null" -> FALSE
      [] value[1] = "bool" -> value[2]
      [] value[1] = "number" -> value[2] # 0
      [] value[1] = "string" -> value[2] # ""
      [] OTHER -> TRUE

\* readZpiConfig on the file .zpi of the project
readZpiConfig(file) ==
    IF file[1] = "absent" THEN Undefined
    ELSE IF file[2][1] = "garbage" THEN Undefined
    ELSE file[2]

\* resolveMemoryScope(cwd, settingsScope), the scopes as JSON strings
resolveMemoryScope(file, settingsScope) ==
    LET zpiConfig == readZpiConfig(file)
    IN IF Truthy(Get(Get(zpiConfig, "memory"), "scope"))
       THEN Get(Get(zpiConfig, "memory"), "scope")
       ELSE JString(settingsScope)

Declaring(scope) == JObject([m \in {"memory"} |-> JObject([f \in {"scope"} |-> scope])])

\* the .zpi files: none, no JSON, JSON of another shape, and scope declarations
ZpiFiles ==
    { Absent, FileText(<<"garbage">>), FileText(JNull), FileText(JNumber(5)),
      FileText(JString("global")), FileText(JArray(<<>>)), FileText(JObject(<<>>)),
      FileText(JObject([m \in {"memory"} |-> JNull])),
      FileText(JObject([m \in {"memory"} |-> JString("global")])),
      FileText(JObject([m \in {"memory"} |-> JObject(<<>>)])),
      FileText(JObject([m \in {"scope"} |-> JString("global")])),
      FileText(Declaring(JString("project"))), FileText(Declaring(JString("global"))),
      FileText(Declaring(JString("team"))), FileText(Declaring(JString(""))),
      FileText(Declaring(JNull)), FileText(Declaring(JNumber(0))),
      FileText(Declaring(JNumber(5))), FileText(Declaring(JBool(TRUE))),
      FileText(Declaring(JBool(FALSE))), FileText(Declaring(JArray(<<>>))) }

\* input: the .zpi file and the scope of the settings; output: what the last call of
\* resolveMemoryScope returned
InitScope ==
    /\ files = EmptyFiles
    /\ memoryContext = [sessionId |-> "session_1", scope |-> "global"]
    /\ result = NoResult
    /\ issued = [scope \in Scopes |-> [kind \in Kinds |-> 0]]
    /\ procs = <<>>
    /\ \E file \in ZpiFiles : \E settingsScope \in Scopes :
           input = [zpi |-> file, settingsScope |-> settingsScope]
    /\ output = None

\* the user rewrites or removes .zpi
EditZpi ==
    /\ \E file \in ZpiFiles : input' = [input EXCEPT !.zpi = file]
    /\ UNCHANGED <<files, memoryContext, result, issued, procs, output>>

\* the memory scope of the settings changes
EditSettings ==
    /\ \E settingsScope \in Scopes : input' = [input EXCEPT !.settingsScope = settingsScope]
    /\ UNCHANGED <<files, memoryContext, result, issued, procs, output>>

ResolveScope ==
    /\ output' = Some(resolveMemoryScope(input.zpi, input.settingsScope))
    /\ UNCHANGED <<files, memoryContext, result, issued, procs, input>>

NextScope ==
    \/ EditZpi
    \/ EditSettings
    \/ ResolveScope

SpecScope == InitScope /\ [][NextScope]_vars

----------------------------------------------------------------------------
(* buildMemoryPromptSection *)

\* str.replace(/c/g, entity)
ReplaceAll(str, c, entity) ==
    Flat([i \in 1..Len(str) |-> IF str[i] = c THEN entity ELSE <<str[i]>>])

escapeXml(str) ==
    ReplaceAll(
        ReplaceAll(
            ReplaceAll(
                ReplaceAll(
                    ReplaceAll(str, "&", <<"&", "a", "m", "p", ";">>),
                    "<", <<"&", "l", "t", ";">>),
                ">", <<"&", "g", "t", ";">>),
            "\"", <<"&", "q", "u", "o", "t", ";">>),
        "'", <<"&", "a", "p", "o", "s", ";">>)

\* a piece of a template: its fixed text, or the value put in
Lit(str) == <<"lit", str>>

Val(v) == <<"val", v>>

NewLine == Lit("\n")

\* what is returned when nothing is stored
NoMemoriesBlock ==
    <<Lit("\n\n<memory_system>\nYou have a persistent memory system that stores knowledge across sessions.\nCurrently no memories are stored. Use the memory_write tool to save: ...\n</memory_system>")>>

\* the first part when something is stored
MemoriesPreamble ==
    <<Lit("\n\n<memory_system>\nYou have a persistent memory system that stores knowledge across sessions.\nYou MUST use these memories to improve your responses. ...\nAUTOMATIC MEMORY CAPTURE RULES: ...\nTIMESTAMP AWARENESS: ...")>>

\* the number of episodes the prompt shows
RecentEpisodes == 10

\* Array.prototype.slice(0, n)
SliceFirst(s, n) == SubSeq(s, 1, IF Len(s) > n THEN n ELSE Len(s))

\* Array.prototype.slice(-n), n > 0
SliceLast(s, n) == SubSeq(s, IF Len(s) > n THEN Len(s) - n + 1 ELSE 1, Len(s))

SemanticPart(m) ==
    <<Lit("  <memory id=\""), Val(m.id), Lit("\" category=\""), Val(m.category), Lit("\">"),
      Val(escapeXml(m.text)), Lit("</memory>")>>

\* m.steps.map((s, i) => `${i + 1}. ${s}`).join("; ")
StepsLine(steps) ==
    Join([i \in 1..Len(steps) |-> NumToString(i) \o <<".", " ">> \o Chars(steps[i])],
         <<";", " ">>)

ProceduralPart(m) ==
    <<Lit("  <procedure id=\""), Val(m.id), Lit("\" name=\""), Val(escapeXml(Chars(m.name))),
      Lit("\" trigger=\""), Val(escapeXml(Chars(m.trigger))), Lit("\">"),
      Val(escapeXml(StepsLine(m.steps))), Lit("</procedure>")>>

\* details.join("; "), and the lessons when the episode has some
EpisodeText(m) ==
    LET details == Join([i \in 1..Len(m.details) |-> Chars(m.details[i])], <<";", " ">>)
        lessons == IF IsSome(m.reflection) THEN m.reflection[1].lessons ELSE <<>>
    IN IF Len(lessons) > 0
       THEN details \o <<" ", "|", " ", "L", "e", "s", "s", "o", "n", "s", ":", " ">>
                \o Join([i \in 1..Len(lessons) |-> Chars(lessons[i])], <<";", " ">>)
       ELSE details

EpisodicPart(m) ==
    <<Lit("  <episode id=\""), Val(m.id), Lit("\" date=\""), Val(m.date), Lit("\" summary=\""),
      Val(escapeXml(Chars(m.summary))), Lit("\">"), Val(escapeXml(EpisodeText(m))),
      Lit("</episode>")>>

\* buildMemoryPromptSection(cwd, scope): the text as the sequence of its pieces
buildMemoryPromptSection(scope) ==
    LET semantic == LoadStore("semantic", scope)
        procedural == LoadStore("procedural", scope)
        episodic == LoadStore("episodic", scope)
        recent == SliceLast(episodic, RecentEpisodes)
        facts == IF Len(semantic) > 0
                 THEN <<<<Lit("\n<semantic_memories>")>>>>
                          \o [i \in 1..Len(semantic) |-> SemanticPart(semantic[i])]
                          \o <<<<Lit("</semantic_memories>")>>>>
                 ELSE <<>>
        procedures == IF Len(procedural) > 0
                      THEN <<<<Lit("\n<procedural_memories>")>>>>
                               \o [i \in 1..Len(procedural) |-> ProceduralPart(procedural[i])]
                               \o <<<<Lit("</procedural_memories>")>>>>
                      ELSE <<>>
        episodes == IF Len(episodic) > 0
                    THEN <<<<Lit("\n<recent_episodic_memories>")>>>>
                             \o [i \in 1..Len(recent) |-> EpisodicPart(recent[i])]
                             \o <<<<Lit("</recent_episodic_memories>")>>>>
                    ELSE <<>>
        parts == <<MemoriesPreamble>> \o facts \o procedures \o episodes
                     \o <<<<Lit("\n</memory_system>")>>>>
    IN IF Len(semantic) = 0 /\ Len(procedural) = 0 /\ Len(episodic) = 0
       THEN NoMemoriesBlock
       ELSE JoinTexts(parts, NewLine)

\* the largest numbers of facts and procedures, and of episodes, in a prompt
MaxListed == 2

MaxRecent == 12

\* the i-th fact, procedure and episode of a store
PromptFact(i) ==
    [id |-> FormatId(SemPrefix, i),
     category |-> IF i % 2 = 1 THEN "preference" ELSE "fact",
     text |-> IF i % 2 = 1 THEN <<"a", "<", "b", ">">> ELSE <<"&", "'", "\"">>,
     tags |-> <<>>, created |-> i, sourceSession |-> "session_1"]

PromptProcedure(i) ==
    [id |-> FormatId(ProcPrefix, i),
     name |-> IF i % 2 = 1 THEN "deploy" ELSE "test",
     trigger |-> IF i % 2 = 1 THEN "on deploy" ELSE "on change",
     steps |-> IF i % 2 = 1 THEN <<"build", "push">> ELSE <<"run tests">>,
     tags |-> <<TagA>>, created |-> i, updated |-> i, sourceSession |-> "session_1"]

PromptEpisode(i) ==
    [id |-> FormatId(EpPrefix, i),
     summary |-> IF i % 2 = 1 THEN "fixed bug" ELSE "added test",
     details |-> IF i % 3 = 0 THEN <<>> ELSE IF i % 3 = 1 THEN <<"d1">> ELSE <<"d1", "m1">>,
     reflection |-> IF i % 3 = 0 THEN None
                    ELSE IF i % 3 = 1 THEN Some([mistakes |-> <<"m1">>, lessons |-> <<>>])
                    ELSE Some([mistakes |-> <<>>, lessons |-> <<"m1", "d1">>]),
     tags |-> <<>>, date |-> ISODate(i), sourceSession |-> "session_1"]

\* input: the scope of the call; output: the text returned. The other scope holds
\* one record of each kind.
InitPrompt ==
    /\ memoryContext = [sessionId |-> "session_1", scope |-> "global"]
    /\ result = NoResult
    /\ issued = [scope \in Scopes |-> [kind \in Kinds |-> 0]]
    /\ procs = <<>>
    /\ output = None
    /\ \E scope \in Scopes : \E f, p \in 0..MaxListed : \E e \in 0..MaxRecent :
           /\ input = scope
           /\ files = [s \in Scopes |->
                          [kind \in Kinds |->
                              LET n == IF s # scope THEN 1
                                       ELSE IF kind = "semantic" THEN f
                                       ELSE IF kind = "procedural" THEN p ELSE e
                              IN [i \in 1..n |->
                                     CASE kind = "semantic" -> PromptFact(i)
                                       [] kind = "procedural" -> PromptProcedure(i)
                                       [] kind = "episodic" -> PromptEpisode(i)]]]

BuildPrompt ==
    /\ output = None
    /\ output' = Some(buildMemoryPromptSection(input))
    /\ UNCHANGED <<files, memoryContext, result, issued, procs, input>>

NextPrompt == BuildPrompt

SpecPrompt == InitPrompt /\ [][NextPrompt]_vars

----------------------------------------------------------------------------
(* The identifiers of a collection, read without the allocator's own parsing *)

\* the three decimal digits of n < 1000
ThreeDigits(n) ==
    <<DigitChars[(n \div 100) + 1], DigitChars[((n \div 10) % 10) + 1], DigitChars[(n % 10) + 1]>>

\* <prefix>_XXX
WellFormedId(prefix, n) == prefix \o <<"_">> \o ThreeDigits(n)

Suffixes == 1..(MaxId + 1)

IdsOf(mems) == {mems[i].id : i \in 1..Len(mems)}

\* the suffixes of the well-formed identifiers in mems
SuffixesIn(prefix, mems) == {n \in Suffixes : WellFormedId(prefix, n) \in IdsOf(mems)}

Largest(S) == IF S = {} THEN 0 ELSE CHOOSE n \in S : \A m \in S : m <= n

Smallest(S) == CHOOSE n \in S : \A m \in S : n <= m

Here == memoryContext.scope

Created(r) == r.op = "write" /\ r.details.action = Some("created")

----------------------------------------------------------------------------
(* The history of allocation: the largest suffix each collection was ever given *)

\* issued after a memory_write of the given kind returned r
Allocated(kind, r) ==
    IF Created(r)
    THEN LET n == CHOOSE k \in Suffixes : r.details.id = Some(WellFormedId(PrefixOf(kind), k))
         IN [issued EXCEPT ![Here][kind] = IF n > @ THEN n ELSE @]
    ELSE issued

WriteRecorded == \E params \in WriteInputs : MemoryWrite(params) /\ issued' = Allocated(params.type, result')

NextIssued ==
    \/ WriteRecorded
    \/ Delete /\ UNCHANGED issued

SpecIssued == Init /\ [][NextIssued]_vars

----------------------------------------------------------------------------
(* Claims *)

\* C1: in every state reached from empty stores by memory_write, memory_update and
\* memory_delete calls, the semantic collection never holds two facts with the same
\* category and case-insensitively equal text.
C1_NoDuplicateFacts ==
    \A scope \in Scopes :
        LET sem == files[scope]["semantic"]
        IN \A i, j \in 1..Len(sem) :
               (i # j /\ sem[i].category = sem[j].category)
                   => ToLowerCase(sem[i].text) # ToLowerCase(sem[j].text)

\* the stored facts a semantic write of (category, text) duplicates
Matching(sem, params) ==
    {i \in 1..Len(sem) : /\ sem[i].category = params.category[1]
                         /\ ToLowerCase(sem[i].text) = ToLowerCase(params.text[1])}

\* C2: a semantic memory_write whose category equals, and whose text is
\* case-insensitively equal to, a stored fact returns action 'duplicate' with the
\* identifier of that fact (the first such fact) and leaves the semantic collection,
\* like every file, unchanged.
C2_DuplicateWriteIsNoOp ==
    [][\A params \in SemWriteInputs :
          LET sem == files[Here]["semantic"]
          IN (/\ IsSome(params.category)
              /\ ~FalsySeq(params.text)
              /\ Matching(sem, params) # {}
              /\ MemoryWrite(params))
             => /\ result'.details.action = Some("duplicate")
                /\ result'.details.id = Some(sem[Smallest(Matching(sem, params))].id)
                /\ files' = files]_vars

\* a write was answered 'duplicate' while the collection holds two facts
C2_Witness ==
    /\ result.op = "write"
    /\ result.details.action = Some("duplicate")
    /\ Len(files[Here]["semantic"]) = 2
    /\ \E i \in 1..2 : files[Here]["semantic"][i].text = <<"A">>

\* C3: a valid procedural memory_write whose name matches no stored procedure
\* returns action 'created' and the identifier 'proc_' followed by the largest
\* numeric suffix in the procedural collection (0 if it is empty) plus one, as three
\* digits.
C3_FreshProcedureId ==
    [][\A params \in ProcWriteInputs :
          LET mems == files[Here]["procedural"]
          IN (/\ result'.op = "write"
              /\ ~FalsyStr(params.name) /\ ~FalsyStr(params.trigger) /\ ~FalsyLength(params.steps)
              /\ \A i \in 1..Len(mems) : mems[i].name # params.name[1]
              /\ MemoryWrite(params))
             => /\ result'.details.action = Some("created")
                /\ result'.details.id =
                       Some(WellFormedId(ProcPrefix, Largest(SuffixesIn(ProcPrefix, mems)) + 1))
                /\ Cardinality(SuffixesIn(ProcPrefix, mems)) = Len(mems)]_vars

\* a procedure was created as proc_003 in a collection that held one other record
C3_Witness ==
    /\ Created(result)
    /\ result.details.id = Some(WellFormedId(ProcPrefix, 3))
    /\ Len(files[Here]["procedural"]) = 2

\* C4: each newly allocated identifier of a collection has a numeric suffix strictly
\* greater than that of every identifier allocated earlier in that collection, over
\* any sequence of memory_write and memory_delete calls.
C4_IdentifiersIncrease ==
    [][\A kind \in Kinds : \A n \in Suffixes :
          (Created(result') /\ result'.details.id = Some(WellFormedId(PrefixOf(kind), n)))
              => n > issued[Here][kind]]_vars

\* C5: generateId returns an identifier that no record of the collection it is given
\* has, and no collection ever holds two records with the same identifier.
C5_UniqueIds ==
    \A scope \in Scopes : \A kind \in Kinds :
        LET mems == files[scope][kind]
        IN /\ generateId(PrefixOf(kind), mems) \notin IdsOf(mems)
           /\ \A i, j \in 1..Len(mems) : i # j => mems[i].id # mems[j].id

\* a collection holds two records after its first record was deleted
C5_Witness ==
    \E kind \in Kinds :
        LET mems == files[Here][kind]
        IN /\ Len(mems) = 2
           /\ mems[1].id = WellFormedId(PrefixOf(kind), 2)
           /\ mems[2].id = WellFormedId(PrefixOf(kind), 3)

\* C6: when a process saves an episodic write from the same file contents that a
\* process which has already saved and returned had read, it returns the identifier
\* the other process returned, and the file then lacks the record the other process
\* saved: the last writer wins and nothing is merged.
C6_LastWriterWins ==
    [][\A p, q \in Procs :
          (/\ p # q
           /\ procs[q].pc = "done"
           /\ IsSome(procs[q].saved)
           /\ procs[p].pc = "loaded"
           /\ procs[p].mems = procs[q].mems
           /\ SaveStep(p))
          => /\ procs'[p].returned.details.id = procs[q].returned.details.id
             /\ procs'[p].returned.details.action = Some("created")
             /\ procs[q].saved[1] \notin Range(files'[Here]["episodic"])
             /\ procs'[p].saved[1] \in Range(files'[Here]["episodic"])]_vars

\* both processes have returned the same identifier and the file holds the record
\* of one of them only
C6_Witness ==
    /\ procs # <<>>
    /\ \A p \in Procs : procs[p].pc = "done" /\ IsSome(procs[p].saved)
    /\ procs[1].returned.details.id = procs[2].returned.details.id
    /\ procs[1].saved[1] \notin Range(files[Here]["episodic"])
    /\ procs[2].saved[1] \in Range(files[Here]["episodic"])
    /\ procs[1].saved[1].summary # procs[2].saved[1].summary

\* the tag lists of the episodes of a list
TagListsOf(memories) == [i \in 1..Len(memories) |-> memories[i].tags]

\* C7: compactEpisodicMemories applied to three episodes with the tag sets {a}, {b},
\* {a,b}, in that order, returns exactly one record.
C7_OneClusterOfThree ==
    (IsSome(output) /\ TagListsOf(input[1]) = <<(<<TagA>>), (<<TagB>>), (<<TagA, TagB>>)>>)
        => Len(output[1]) = 1

\* the place in memories of the episode with the given identifier
PlaceOf(memories, id) == CHOOSE i \in 1..Len(memories) : memories[i].id = id

\* C8: the records compactEpisodicMemories returns are in the order in which their
\* clusters were opened: the first member of an earlier record's cluster, whose
\* identifier the record carries, comes earlier in the input.
C8_CreationOrder ==
    IsSome(output)
        => \A i, j \in 1..Len(output[1]) :
               i < j => PlaceOf(input[1], output[1][i].id) < PlaceOf(input[1], output[1][j].id)

\* the elements of s, each at its first occurrence
FirstSeen(s) ==
    LET keep == {i \in 1..Len(s) : \A j \in 1..(i - 1) : s[j] # s[i]}
        nth(k) == CHOOSE i \in keep : Cardinality({j \in keep : j < i}) = k - 1
    IN [k \in 1..Cardinality(keep) |-> s[nth(k)]]

\* what C9 says of the record r returned for the cluster group
AsClaimed(r, group) ==
    IF Len(group) >= 2
    THEN /\ r.id = group[1].id
         /\ r.date = group[Len(group)].date
         /\ r.sourceSession = group[Len(group)].sourceSession
         /\ r.summary = ConsolidatedPrefix
                            \o Join([i \in 1..Len(group) |-> group[i].summary], SummarySeparator)
         /\ r.details = FirstSeen(Flat([i \in 1..Len(group) |-> group[i].details]))
         /\ r.tags = FirstSeen(Flat([i \in 1..Len(group) |-> group[i].tags]))
         /\ MistakesOf(r) = FirstSeen(Flat([i \in 1..Len(group) |-> MistakesOf(group[i])]))
         /\ LessonsOf(r) = FirstSeen(Flat([i \in 1..Len(group) |-> LessonsOf(group[i])]))
    ELSE r = group[1]

\* C9: the record compactEpisodicMemories returns for a cluster of two or more has
\* the identifier of the first member, the date and sourceSession of the last member,
\* the summary 'Consolidated: ' followed by the members' summaries joined in order,
\* and as details, tags, mistakes and lessons the members' values, each once, in
\* first-seen order; the record returned for a cluster of one is that episode.
C9_ConsolidatedRecord ==
    IsSome(output)
        => IF Len(input[1]) <= 1
           THEN output[1] = input[1]
           ELSE LET tagGroups == TagGroups(input[1])
                IN /\ Len(output[1]) = Len(tagGroups)
                   /\ \A k \in 1..Len(tagGroups) : AsClaimed(output[1][k], tagGroups[k].value)

\* a list was compacted into a cluster of one and a cluster of two whose members
\* repeat a detail and differ in session
C9_Witness ==
    /\ IsSome(output)
    /\ Len(input[1]) = 3
    /\ Len(output[1]) = 2
    /\ \E k \in 1..2 :
           LET group == TagGroups(input[1])[k].value
           IN /\ Len(group) = 2
              /\ Len(Flat([i \in 1..Len(group) |-> group[i].details])) > Len(output[1][k].details)
              /\ group[1].sourceSession # group[2].sourceSession
              /\ IsSome(output[1][k].reflection)

\* C10: an episode without tags is never merged with another episode: it is among
\* the records compactEpisodicMemories returns, unchanged.
C10_TaglessAlone ==
    IsSome(output)
        => \A i \in 1..Len(input[1]) :
               Len(input[1][i].tags) = 0 => input[1][i] \in Range(output[1])

\* the lower-case form of a string of the model's letters
LowerCased(s) ==
    [i \in 1..Len(s) |-> IF s[i] = "A" THEN "a" ELSE IF s[i] = "B" THEN "b" ELSE s[i]]

\* the maximal runs of characters other than white space in s
Tokens(s) ==
    { SubSeq(s, ij[1], ij[2]) : ij \in
        { p \in (1..Len(s)) \X (1..Len(s)) :
            /\ p[1] <= p[2]
            /\ \A k \in p[1]..p[2] : s[k] \notin {" ", Tab}
            /\ p[1] = 1 \/ s[p[1] - 1] \in {" ", Tab}
            /\ p[2] = Len(s) \/ s[p[2] + 1] \in {" ", Tab} } }

\* w is a substring of s
Substring(w, s) == \E i \in 1..(Len(s) + 1) : \E j \in (i - 1)..Len(s) : SubSeq(s, i, j) = w

\* the text of C11 for a fact: lower-cased projected text, a space, the space-joined
\* lower-cased tags
Haystack(m) ==
    LowerCased(m.text) \o <<" ">>
        \o LowerCased(Flat([k \in 1..Len(m.tags) |->
                                IF k = 1 THEN m.tags[k] ELSE <<" ">> \o m.tags[k]]))

MatchesQuery(m, query) == \A t \in Tokens(LowerCased(query)) : Substring(t, Haystack(m))

\* C11: searchMemories returns, in input order, exactly the records for which every
\* white-space-separated token of the lower-cased query is a substring of the
\* lower-cased projected text, a space and the space-joined tags; a query without
\* tokens returns the whole list.
C11_SearchMatches ==
    IsSome(output)
        => /\ output[1] = SelectSeq(input[1], LAMBDA m : MatchesQuery(m, input[2]))
           /\ Tokens(input[2]) = {} => output[1] = input[1]

\* a query of white space and the token 'aB' returned the second of two facts only:
\* the one whose text holds 'ab'
C11_Witness ==
    /\ IsSome(output)
    /\ Len(input[1]) = 2
    /\ input[2] = <<Tab, "a", "B">>
    /\ input[1][1] # input[1][2]
    /\ output[1] = <<input[1][2]>>

\* C12: for every scope, kind and collection, the empty one too, loadStore after
\* saveStore on the same scope and kind returns a collection equal to the saved one:
\* the same records in the same order, each with the same value in every field.
C12_RoundTrip ==
    (output.saved /\ IsSome(output.returned))
        => LET store == output.returned[1]
           IN /\ StoreMemories(store)[1] = "array"
              /\ Len(StoreMemories(store)[2]) = Len(input[3])
              /\ RecordsRead(input[2], store) = input[3]

\* two episodes, one of them without reflection, were saved over a file that held
\* no store and were loaded
C12_Witness ==
    /\ output.saved
    /\ IsSome(output.returned)
    /\ input[1] = "project"
    /\ input[2] = "episodic"
    /\ Len(input[3]) = 2
    /\ input[3][1].reflection = None
    /\ input[3][2].reflection # None
    /\ output.disk[input[1]][input[2]] = FileText(JSONStringify(input[3]))

\* C13: loadStore returns a store whose memories exist and are empty whenever the
\* file is absent, is not parseable JSON, or parses to a value that is not of the
\* shape {memories: [...]}.
C13_CorruptFileIsEmpty ==
    (~output.saved /\ IsSome(output.returned))
        => LET file == output.disk[input[1]][input[2]]
               shaped == IF file[1] = "absent" THEN FALSE
                         ELSE IF file[2][1] # "object" THEN FALSE
                         ELSE IF "memories" \notin DOMAIN file[2][2] THEN FALSE
                         ELSE file[2][2].memories[1] = "array"
               memories == StoreMemories(output.returned[1])
           IN ~shaped => (memories[1] = "array" /\ Len(memories[2]) = 0)

\* the identifiers the three collections of the scope hold
StoredIds == UNION {IdsOf(files[Here][kind]) : kind \in Kinds}

\* C14: a memory_delete of an identifier that none of the three collections holds
\* returns deleted: false and leaves the three collections as they were.
C14_DeleteUnknownIsNoOp ==
    [][\A id \in IdInputs :
          (id \notin StoredIds /\ MemoryDelete(id))
              => /\ result'.details = [deleted |-> FALSE]
                 /\ files' = files]_vars

\* a delete was answered deleted: false while the scope holds two records
C14_Witness ==
    /\ result.op = "delete"
    /\ result.details = [deleted |-> FALSE]
    /\ Cardinality(StoredIds) = 2

\* the writes C16 is about: a required field of the kind is missing or empty
LacksRequired(params) ==
    CASE params.type = "procedural" ->
             \/ params.name \in {None, Some("")}
             \/ params.trigger \in {None, Some("")}
             \/ params.steps \in {None, Some(<<>>)}
      [] params.type = "episodic" -> params.summary \in {None, Some("")}
      [] params.type = "semantic" ->
             \/ params.text \in {None, Some(<<>>)}
             \/ params.category = None

ErrorTexts ==
    { "Error: procedural memory requires name, trigger, and steps.",
      "Error: episodic memory requires a summary.",
      "Error: semantic memory requires text and category." }

\* C16: a memory_write that lacks a required field of its kind returns an error text
\* with no action and no id and leaves the three collections unchanged.
C16_RejectedWriteIsNoOp ==
    [][\A params \in RejectedWrites :
          (LacksRequired(params) /\ MemoryWrite(params))
              => /\ result'.text \in ErrorTexts
                 /\ result'.details = [action |-> None, id |-> None]
                 /\ files' = files]_vars

\* a write was answered with the error text of the semantic kind while the scope
\* holds a record of each other kind
C16_Witness ==
    /\ result.op = "write"
    /\ result.text = "Error: semantic memory requires text and category."
    /\ Len(files[Here]["procedural"]) = 1
    /\ Len(files[Here]["episodic"]) = 1

\* the procedures stored under the name
NamedLike(mems, name) == {i \in 1..Len(mems) : mems[i].name = name}

NoRepeats(s) == \A i, j \in 1..Len(s) : i # j => s[i] # s[j]

\* C17: a valid procedural memory_write whose name is that of a stored procedure
\* returns 'updated' with that procedure's identifier, replaces its steps and trigger,
\* sets its tags to the union of the old and the new tags, and leaves the length of
\* the collection, the record's place, identifier, name, created and sourceSession
\* and every other procedure unchanged; with a fresh name it appends one record and
\* returns 'created'.
C17_SameNameUpdates ==
    [][\A params \in ProcWriteInputs :
          LET mems == files[Here]["procedural"]
              after == files'[Here]["procedural"]
              new == IF IsSome(params.tags) THEN params.tags[1] ELSE <<>>
          IN (result'.op = "write" /\ ~LacksRequired(params) /\ MemoryWrite(params))
             => IF NamedLike(mems, params.name[1]) # {}
                THEN LET i == Smallest(NamedLike(mems, params.name[1]))
                     IN /\ result'.details = [action |-> Some("updated"), id |-> Some(mems[i].id)]
                        /\ Len(after) = Len(mems)
                        /\ after[i].steps = params.steps[1]
                        /\ after[i].trigger = params.trigger[1]
                        /\ Range(after[i].tags) = Range(mems[i].tags) \cup Range(new)
                        /\ NoRepeats(after[i].tags)
                        /\ after[i].id = mems[i].id
                        /\ after[i].name = mems[i].name
                        /\ after[i].created = mems[i].created
                        /\ after[i].sourceSession = mems[i].sourceSession
                        /\ \A j \in 1..Len(mems) : j # i => after[j] = mems[j]
                ELSE /\ result'.details.action = Some("created")
                     /\ Len(after) = Len(mems) + 1
                     /\ SubSeq(after, 1, Len(mems)) = mems
                     /\ after[Len(after)].name = params.name[1]
                     /\ result'.details.id = Some(after[Len(after)].id)]_vars

\* the second of two procedures was written again under its name: it holds the new
\* trigger and steps and both tags
C17_Witness ==
    /\ result.op = "write"
    /\ result.details.action = Some("updated")
    /\ Len(files[Here]["procedural"]) = 2
    /\ result.details.id = Some(files[Here]["procedural"][2].id)
    /\ files[Here]["procedural"][2].trigger = "on release"
    /\ files[Here]["procedural"][2].steps = <<"tag">>
    /\ files[Here]["procedural"][2].tags = <<TagA, TagB>>

\* the fields memory_update may change in a record of the kind
Updatable(kind) ==
    CASE kind = "procedural" -> {"steps", "trigger", "tags", "updated"}
      [] kind = "semantic" -> {"text", "tags"}
      [] kind = "episodic" -> {"tags"}

\* C18: memory_update changes, in the record with the identifier, only steps,
\* trigger, tags and updated of a procedure, only text and tags of a fact, only tags
\* of an episode; every other field of the record, every other record and the other
\* two collections are unchanged; for an identifier in no collection it returns
\* updated: false and changes nothing.
C18_UpdateFrame ==
    [][\A params \in UpdateInputs :
          MemoryUpdate(params)
          => IF params.id \in StoredIds
             THEN /\ result'.details = [updated |-> TRUE]
                  /\ \A kind \in Kinds :
                        LET mems == files[Here][kind]
                            after == files'[Here][kind]
                        IN /\ Len(after) = Len(mems)
                           /\ \A i \in 1..Len(mems) :
                                 IF mems[i].id = params.id
                                 THEN \A f \in DOMAIN mems[i] \ Updatable(kind) :
                                          after[i][f] = mems[i][f]
                                 ELSE after[i] = mems[i]
                  /\ \A scope \in Scopes \ {Here} : files'[scope] = files[scope]
             ELSE /\ result'.details = [updated |-> FALSE]
                  /\ files' = files]_vars

\* an update that named every field was applied to an episode: its tags are the new
\* ones, its summary and details the old ones, beside a record of another kind
C18_Witness ==
    /\ result.op = "update"
    /\ result.details = [updated |-> TRUE]
    /\ Len(files[Here]["episodic"]) = 1
    /\ files[Here]["episodic"][1].tags = <<TagB>>
    /\ files[Here]["episodic"][1].summary = "fixed bug"
    /\ files[Here]["episodic"][1].details = <<"d1">>
    /\ Len(files[Here]["semantic"]) = 1

\* the record with the identifier, and its kind, among the collections of the scope
KindHolding(id) == CHOOSE kind \in Kinds : id \in IdsOf(files[Here][kind])

RecordHolding(id) ==
    LET mems == files[Here][KindHolding(id)]
    IN mems[CHOOSE i \in 1..Len(mems) : mems[i].id = id]

\* C15: the identifier a memory_write returns as 'created' is stored; a stored
\* identifier stays stored until a memory_delete of it succeeds, and is not stored
\* after that; and a memory_read by id returns found: true with the stored record's
\* formatted content when the identifier is stored, found: false when it is not.
C15_ReadFollowsWriteAndDelete ==
    [][/\ Created(result') => result'.details.id[1] \in StoredIds'
       /\ \A id \in KnownIds :
             (id \in StoredIds /\ id \notin StoredIds')
                 => (MemoryDelete(id) /\ result'.details = [deleted |-> TRUE])
       /\ \A id \in KnownIds :
             (id \in StoredIds /\ result'.op = "delete" /\ MemoryDelete(id))
                 => id \notin StoredIds'
       /\ \A params \in ReadInputs :
             (/\ IsSome(params.id) /\ params.id # Some(<<>>)
              /\ result'.op = "read"
              /\ MemoryRead(params))
                 => IF params.id[1] \in StoredIds
                    THEN /\ result'.details = [found |-> TRUE]
                         /\ result'.text = Format(KindHolding(params.id[1]),
                                                  RecordHolding(params.id[1]))
                    ELSE result'.details = [found |-> FALSE]]_vars

\* the fact sem_001 was read by id and found, beside an episode
C15_Witness ==
    /\ result.op = "read"
    /\ result.details = [found |-> TRUE]
    /\ Len(files[Here]["semantic"]) = 1
    /\ Len(files[Here]["episodic"]) = 1
    /\ result.text = formatSemanticForDisplay(files[Here]["semantic"][1])
    /\ result.text[2] = WellFormedId(SemPrefix, 1)

\* the scope a .zpi file declares, if it declares 'project' or 'global'
DeclaredScope(file) ==
    IF file[1] = "absent" THEN None
    ELSE IF \E scope \in Scopes : file[2] = Declaring(JString(scope))
         THEN Some(file[2][2]["memory"][2]["scope"])
         ELSE None

\* C19: resolveMemoryScope returns 'project' or 'global' in every case: the scope
\* the .zpi file declares when the file is present, parseable and declares one of
\* the two, and the scope of the settings in every other case.
C19_ScopeIsProjectOrGlobal ==
    [][ResolveScope =>
          /\ output'[1] \in {JString(scope) : scope \in Scopes}
          /\ output'[1] = IF IsSome(DeclaredScope(input.zpi))
                          THEN DeclaredScope(input.zpi)[1]
                          ELSE JString(input.settingsScope)]_vars

\* the lines of a text
RECURSIVE LinesOf(_)
LinesOf(pieces) ==
    IF \E i \in 1..Len(pieces) : pieces[i] = NewLine
    THEN LET i == CHOOSE k \in 1..Len(pieces) :
                      pieces[k] = NewLine /\ \A j \in 1..(k - 1) : pieces[j] # NewLine
         IN <<SubSeq(pieces, 1, i - 1)>> \o LinesOf(SubSeq(pieces, i + 1, Len(pieces)))
    ELSE <<pieces>>

\* the tags that open and close the section of a kind, and open a record in it
SectionTags(kind) ==
    CASE kind = "semantic" ->
             <<"\n<semantic_memories>", "</semantic_memories>", "  <memory id=\"">>
      [] kind = "procedural" ->
             <<"\n<procedural_memories>", "</procedural_memories>", "  <procedure id=\"">>
      [] kind = "episodic" ->
             <<"\n<recent_episodic_memories>", "</recent_episodic_memories>", "  <episode id=\"">>

\* the places of the lines that are the tag alone
LinesBeing(lines, tag) == {i \in 1..Len(lines) : lines[i] = <<Lit(tag)>>}

\* the places of the lines that start with the tag
LinesOpening(lines, tag) == {i \in 1..Len(lines) : Len(lines[i]) > 1 /\ lines[i][1] = Lit(tag)}

\* the section of the kind lists exactly the records, in their order
SectionLists(lines, kind, records) ==
    LET opened == LinesBeing(lines, SectionTags(kind)[1])
        closed == LinesBeing(lines, SectionTags(kind)[2])
        listed == LinesOpening(lines, SectionTags(kind)[3])
    IN IF Len(records) = 0
       THEN opened = {} /\ closed = {} /\ listed = {}
       ELSE /\ Cardinality(opened) = 1
            /\ LET at == CHOOSE i \in opened : TRUE
               IN /\ listed = (at + 1)..(at + Len(records))
                  /\ closed = {at + Len(records) + 1}
                  /\ \A k \in 1..Len(records) : lines[at + k][2] = Val(records[k].id)

\* C20: buildMemoryPromptSection emits no data section when the three collections
\* are empty; otherwise it emits the facts, the procedures and the episodes section
\* each exactly when its collection is not empty, listing every fact and every
\* procedure in collection order and exactly the last min(10, n) of the n episodes
\* in collection order.
C20_PromptSections ==
    IsSome(output) =>
        LET lines == LinesOf(output[1])
            semantic == files[input]["semantic"]
            procedural == files[input]["procedural"]
            episodic == files[input]["episodic"]
            n == Len(episodic)
            shown == IF n < 10 THEN n ELSE 10
        IN /\ SectionLists(lines, "semantic", semantic)
           /\ SectionLists(lines, "procedural", procedural)
           /\ SectionLists(lines, "episodic", SubSeq(episodic, n - shown + 1, n))

\* a prompt was built from two facts, no procedure and twelve episodes: it lists
\* ten episodes, from the third on
C20_Witness ==
    /\ IsSome(output)
    /\ Len(files[input]["semantic"]) = 2
    /\ Len(files[input]["procedural"]) = 0
    /\ Len(files[input]["episodic"]) = 12
    /\ Cardinality(LinesOpening(LinesOf(output[1]), "  <episode id=\"")) = 10
    /\ \E i \in LinesOpening(LinesOf(output[1]), "  <episode id=\"") :
           LinesOf(output[1])[i][2] = Val(FormatId(EpPrefix, 3))

\* the tags of the members of a cluster
AccumulatedTags(group) == UNION {Range(group[i].tags) : i \in 1..Len(group)}

\* the clusters that share a tag with the episode, each named by its first member
SharingClusters(tagGroups, m) ==
    { tagGroups[k].value[1].id : k \in
        { j \in 1..Len(tagGroups) : AccumulatedTags(tagGroups[j].value) \cap Range(m.tags) # {} } }

\* of the clusters named, the one opened first: its first member is the earliest
\* in memories
EarliestOpened(memories, firsts) ==
    CHOOSE id \in firsts : \A other \in firsts : PlaceOf(memories, id) <= PlaceOf(memories, other)

\* C21: in each turn of the loop of compactEpisodicMemories, an episode that shares
\* a tag with an open cluster is added to the earliest-opened cluster whose members'
\* tags intersect its own, also after a merge has renamed an earlier cluster.
C21_JoinsEarliestCluster ==
    [][LET m == input[1][output.turns + 1]
           sharing == SharingClusters(output.tagGroups, m)
       IN (PlaceNext /\ sharing # {})
          => \E k \in 1..Len(output'.tagGroups) :
                 LET group == output'.tagGroups[k].value
                 IN /\ group[1].id = EarliestOpened(input[1], sharing)
                    /\ group[Len(group)] = m]_vars

\* the list without its element at place i
Without(s, i) == [k \in 1..(Len(s) - 1) |-> IF k < i THEN s[k] ELSE s[k + 1]]

FoundById(id) ==
    LET holds(kind) == id \in IdsOf(files[Here][kind])
        first(kind) == LET mems == files[Here][kind]
                       IN mems[Smallest({i \in 1..Len(mems) : mems[i].id = id})]
    IN IF holds("procedural") THEN Some(formatProceduralForDisplay(first("procedural")))
       ELSE IF holds("episodic") THEN Some(formatEpisodicForDisplay(first("episodic")))
       ELSE IF holds("semantic") THEN Some(formatSemanticForDisplay(first("semantic")))
       ELSE None

\* C23: memory_read looks at id, then query, then lists: with a non-empty id the
\* result is that of the id alone (the first match through procedures, episodes,
\* facts, or found: false) whatever query and type come with it; without one, a
\* non-empty query gives a count of matches and neither gives the listing; and no
\* memory_read changes a collection.
C23_ReadModes ==
    [][\A params \in ReadInputs :
          (result'.op = "read" /\ MemoryRead(params))
              => /\ files' = files
                 /\ IF IsSome(params.id) /\ params.id # Some(<<>>)
                    THEN IF IsSome(FoundById(params.id[1]))
                         THEN /\ result'.details = [found |-> TRUE]
                              /\ result'.text = FoundById(params.id[1])[1]
                         ELSE result'.details = [found |-> FALSE]
                    ELSE IF IsSome(params.query) /\ params.query # Some(<<>>)
                         THEN result' = ReadByQuery(OrElse(params.type, "all"), params.query[1])
                         ELSE result' = ReadAll(OrElse(params.type, "all"))]_vars

\* the fact sem_001, whose text the query B does not match, was read by id, found
\* beside a procedure
C23_Witness ==
    /\ result.op = "read"
    /\ result.details = [found |-> TRUE]
    /\ Len(files[Here]["procedural"]) = 1
    /\ Len(files[Here]["semantic"]) = 1
    /\ files[Here]["semantic"][1].text = <<"a">>
    /\ result.text = formatSemanticForDisplay(files[Here]["semantic"][1])

\* the files a step changes
ChangedFiles == {f \in Scopes \X Kinds : files'[f[1]][f[2]] # files[f[1]][f[2]]}

\* the kind whose identifiers start with the prefix of the given one
KindOfId(id) == CHOOSE kind \in Kinds : SubSeq(id, 1, Len(PrefixOf(kind))) = PrefixOf(kind)

\* the lines a listing of the scope's collections has: a heading and the records of
\* each collection that is not empty
ListedIn(scope) ==
    LET n(kind) == IF Len(files[scope][kind]) > 0 THEN Len(files[scope][kind]) + 1 ELSE 0
    IN n("procedural") + n("episodic") + n("semantic")

\* C24: every operation reads and writes the collections of the scope the tool
\* context holds when it is called: a step changes at most one file, a file of that
\* scope and of the kind of the record written, updated or deleted, and leaves the
\* other kinds and the other scope as they were; a record is created with the
\* identifier that follows those of that scope's collection and is then in that one
\* file; and a read finds and lists the records of that scope alone.
C24_ScopeIsolation ==
    [][/\ Cardinality(ChangedFiles) <= 1
       /\ \A f \in ChangedFiles :
             /\ f[1] = Here
             /\ result'.op \in {"write", "update", "delete"}
             /\ Here' = Here
             /\ \E id \in IdsOf(files[Here][f[2]]) \cup IdsOf(files'[Here][f[2]]) :
                    KindOfId(id) = f[2]
       /\ (Created(result') /\ memoryContext' = memoryContext)
             => \E kind \in Kinds :
                    LET mems == files[Here][kind]
                        id == WellFormedId(PrefixOf(kind),
                                           Largest(SuffixesIn(PrefixOf(kind), mems)) + 1)
                    IN /\ result'.details.id = Some(id)
                       /\ ChangedFiles = {<<Here, kind>>}
                       /\ Len(files'[Here][kind]) = Len(mems) + 1
                       /\ SubSeq(files'[Here][kind], 1, Len(mems)) = mems
                       /\ files'[Here][kind][Len(mems) + 1].id = id
       /\ \A params \in ScopedReads :
             (result'.op = "read" /\ MemoryRead(params))
                 => IF params.id # Some(<<>>)
                    THEN result'.details = [found |-> params.id[1] \in StoredIds]
                    ELSE result'.details = [count |-> ListedIn(Here)]]_vars

\* a fact was created as sem_001 in the project scope while the global scope holds
\* its own sem_001
C24_Witness ==
    /\ Created(result)
    /\ Here = "project"
    /\ result.details.id = Some(WellFormedId(SemPrefix, 1))
    /\ Len(files["project"]["semantic"]) = 1
    /\ Len(files["global"]["semantic"]) = 1
    /\ files["global"]["semantic"][1].id = WellFormedId(SemPrefix, 1)

\* C25: under every interleaving of the loads and saves of concurrent memory_write,
\* memory_update and memory_delete calls on one scope, from empty stores, no
\* collection file holds two records with the same identifier.
C25_NoDuplicateIdPersisted ==
    \A scope \in Scopes : \A kind \in Kinds :
        LET mems == files[scope][kind]
        IN \A i, j \in 1..Len(mems) : i # j => mems[i].id # mems[j].id

\* both processes were returned the same new identifier for an episode, and the file
\* holds one episode
C25_Witness ==
    /\ DOMAIN procs = Procs
    /\ \A p \in Procs : procs[p].pc = "done" /\ Created(procs[p].returned)
    /\ procs[1].returned.details.id = Some(FormatId(EpPrefix, 1))
    /\ procs[2].returned.details.id = Some(FormatId(EpPrefix, 1))
    /\ Len(files[Here]["episodic"]) = 1

\* the records of the output whose summary holds the summary of the episode
ClustersOf(m) == {k \in 1..Len(output[1]) : Substring(m.summary, output[1][k].summary)}

\* C26: compactEpisodicMemories loses no episode, whatever the tags: every episode
\* of the input is a member of exactly one cluster of the output, whose record holds
\* its summary, its details and its tags.
C26_NoEpisodeLost ==
    IsSome(output)
        => \A i \in 1..Len(input[1]) :
               LET m == input[1][i]
               IN /\ Cardinality(ClustersOf(m)) = 1
                  /\ \A k \in ClustersOf(m) :
                         /\ Range(m.details) \subseteq Range(output[1][k].details)
                         /\ Range(m.tags) \subseteq Range(output[1][k].tags)

\* C27: in every state reached from empty stores by memory_write, memory_update and
\* memory_delete calls, every stored procedure has a non-empty name, a non-empty
\* trigger and at least one step.
C27_ProceduresStayComplete ==
    \A scope \in Scopes :
        LET mems == files[scope]["procedural"]
        IN \A i \in 1..Len(mems) :
               /\ mems[i].name # ""
               /\ mems[i].trigger # ""
               /\ Len(mems[i].steps) > 0

\* the kind in whose collection a scan in the given order first finds the identifier
FirstHolding(order, scope, id) ==
    LET holding == {k \in 1..Len(order) : id \in IdsOf(files[scope][order[k]])}
    IN IF holding = {} THEN "none" ELSE order[Smallest(holding)]

\* C28: in every state reached from empty stores, every identifier of the
\* procedural, episodic and semantic collection starts with 'proc_', 'ep_' and 'sem_'
\* respectively; no identifier is in two collections of a scope, and the scans of
\* memory_read, memory_update and memory_delete find each identifier in the same
\* collection.
C28_PrefixesSeparateKinds ==
    \A scope \in Scopes :
        /\ \A kind \in Kinds : \A id \in IdsOf(files[scope][kind]) :
               OccursAt(id, PrefixOf(kind) \o <<"_">>, 1)
        /\ \A kind, other \in Kinds :
               kind # other => IdsOf(files[scope][kind]) \cap IdsOf(files[scope][other]) = {}
        /\ \A id \in IdInputs :
               /\ FirstHolding(ReadOrder, scope, id) = FirstHolding(UpdateOrder, scope, id)
               /\ FirstHolding(ReadOrder, scope, id) = FirstHolding(DeleteOrder, scope, id)

\* the scope holds a procedure and a fact with the same suffix
C28_Witness ==
    /\ WellFormedId(ProcPrefix, 1) \in IdsOf(files[Here]["procedural"])
    /\ WellFormedId(SemPrefix, 1) \in IdsOf(files[Here]["semantic"])
    /\ result.op = "update"

====
